---- MODULE Spec2Model ----
(***************************************************************************)
(* The maker side of the atomic swap engine of mm2src/lp_swap.rs and       *)
(* mm2src/lp_swap/maker_swap.rs: the driver loop run_maker_swap, the       *)
(* command handlers of MakerSwap, the event journal SWAPS/MY/<uuid>.json,  *)
(* the registry of running swaps, kick-start after a restart, and          *)
(* recover_funds.  The coins and the peer are the environment: every call  *)
(* to them is a nondeterministic choice among the results the call can     *)
(* give, and the transactions they broadcast are kept in `chain`.          *)
(***************************************************************************)
EXTENDS Integers, Sequences, FiniteSets, TLC

(***************************************************************************)
(* Bounds of the model.                                                    *)
(***************************************************************************)
\* now_ms() / 1000 when the process is first started.
StartEpoch == 1000000
\* How many times the process may crash and be restarted.
MaxCrashes == 1
\* How many times the operator may call recover_funds_of_swap.
MaxRecover == 1
MaxStatus == 1
\* The wallet balance of every coin before any swap (in units of 0.1 coin).
InitialBalance == 10

(***************************************************************************)
(* Program constants.                                                      *)
(***************************************************************************)
PAYMENT_LOCKTIME == 3600 * 2 + 300 * 2
\* "have to wait for 1 hour more": the literal of refund_maker_payment and
\* recover_funds.
RefundGrace == 3700
\* The literal of MakerSwap::negotiate.
MaxTimeDif == 60

(***************************************************************************)
(* The swaps the matcher hands over: uuid, coins and amount of each.       *)
(***************************************************************************)
Swaps == {"a", "b"}
MakerCoinOf(s) == "BEER"
TakerCoinOf(s) == "ETOMIC"
MakerAmountOf(s) == IF s = "a" THEN InitialBalance - 4 ELSE InitialBalance - 5
Coins == {"BEER", "ETOMIC"}
\* The only value rng.gen() yields here; 0 is H256Json::default().
Secrets == {7}

lp_atomic_locktime(base, rel) ==
    IF base = "BTC" \/ rel = "BTC" THEN PAYMENT_LOCKTIME * 10
    ELSE IF base \in {"BCH", "BTG", "SBTC"} \/ rel \in {"BCH", "BTG", "SBTC"}
         THEN PAYMENT_LOCKTIME * 4
         ELSE PAYMENT_LOCKTIME

\* The instants the clock is sampled at: the start, both sides of the
\* SendPayment deadline and both sides of the refund instant of a swap
\* started at StartEpoch.  The matcher hands its swaps over at StartEpoch and
\* the Start command reads the clock before the next sampled instant.
TimePoints ==
    { StartEpoch + d : d \in { 0,
                               PAYMENT_LOCKTIME \div 3,
                               PAYMENT_LOCKTIME \div 3 + 1,
                               2 * PAYMENT_LOCKTIME + RefundGrace - 1,
                               2 * PAYMENT_LOCKTIME + RefundGrace } }

\* The started_at the taker may report, relative to the maker's.
TakerSkews == { 0 - (MaxTimeDif + 1), 0, MaxTimeDif, MaxTimeDif + 1 }

(***************************************************************************)
(* Events (MakerSwapEvent in a MakerSavedEvent) and the swap data.         *)
(***************************************************************************)
NoTx == "none"

\* MakerSwapData::default()
NoData ==
    [ started_at |-> 0, lock_duration |-> 0, maker_payment_lock |-> 0,
      secret |-> 0, maker_amount |-> 0, maker_coin |-> "", taker_coin |-> "" ]

Ev(t) == [ type |-> t, data |-> NoData, locktime |-> 0, tx |-> NoTx, err |-> "" ]
EvStarted(d) == [ Ev("Started") EXCEPT !.data = d ]
EvNegotiated(l) == [ Ev("Negotiated") EXCEPT !.locktime = l ]
EvTx(t, tx) == [ Ev(t) EXCEPT !.tx = tx ]
EvErr(t, e) == [ Ev(t) EXCEPT !.err = e ]

Types(events) == [ i \in DOMAIN events |-> events[i].type ]
Has(events, t) == \E i \in DOMAIN events : events[i].type = t
Last(events) == events[Len(events)]

\* MakerSwap::new
NewSwap(amount) ==
    [ maker_amount |-> amount, data |-> NoData, taker_payment_lock |-> 0,
      taker_fee |-> NoTx, maker_payment |-> NoTx, taker_payment |-> NoTx,
      taker_payment_confirmed |-> FALSE, taker_payment_spend |-> NoTx,
      maker_payment_refund |-> NoTx, errors |-> << >>, finished_at |-> 0 ]

\* MakerSwap::apply_event, at time t
apply_event(sw, e, t) ==
    CASE e.type = "Started" -> [ sw EXCEPT !.data = e.data ]
      [] e.type = "Negotiated" -> [ sw EXCEPT !.taker_payment_lock = e.locktime ]
      [] e.type = "TakerFeeValidated" -> [ sw EXCEPT !.taker_fee = e.tx ]
      [] e.type = "MakerPaymentSent" -> [ sw EXCEPT !.maker_payment = e.tx ]
      [] e.type = "TakerPaymentReceived" -> [ sw EXCEPT !.taker_payment = e.tx ]
      [] e.type = "TakerPaymentWaitConfirmStarted" -> sw
      [] e.type = "TakerPaymentValidatedAndConfirmed" ->
             [ sw EXCEPT !.taker_payment_confirmed = TRUE ]
      [] e.type = "TakerPaymentSpent" -> [ sw EXCEPT !.taker_payment_spend = e.tx ]
      [] e.type = "MakerPaymentRefunded" -> [ sw EXCEPT !.maker_payment_refund = e.tx ]
      [] e.type = "Finished" -> [ sw EXCEPT !.finished_at = t ]
      [] OTHER -> [ sw EXCEPT !.errors = Append(@, e.err) ]

\* A get_command that resumes a validated fee at WaitForTakerFee.
get_command_fee_again(e) ==
    CASE e.type = "Started" -> "Negotiate"
      [] e.type = "Negotiated" -> "WaitForTakerFee"
      [] e.type = "TakerFeeValidated" -> "WaitForTakerFee"
      [] e.type = "MakerPaymentSent" -> "WaitForTakerPayment"
      [] e.type \in {"MakerPaymentDataSendFailed", "TakerPaymentValidateFailed",
                     "TakerPaymentSpendFailed"} -> "RefundMakerPayment"
      [] e.type \in {"TakerPaymentReceived", "TakerPaymentWaitConfirmStarted"} ->
             "ValidateTakerPayment"
      [] e.type = "TakerPaymentValidatedAndConfirmed" -> "SpendTakerPayment"
      [] e.type = "Finished" -> "None"
      [] OTHER -> "Finish"

\* A get_command that resumes an accepted negotiation at SendPayment.
get_command_skips_fee(e) ==
    CASE e.type = "Started" -> "Negotiate"
      [] e.type = "Negotiated" -> "SendPayment"
      [] e.type = "TakerFeeValidated" -> "SendPayment"
      [] e.type = "MakerPaymentSent" -> "WaitForTakerPayment"
      [] e.type \in {"MakerPaymentDataSendFailed", "TakerPaymentValidateFailed",
                     "TakerPaymentSpendFailed"} -> "RefundMakerPayment"
      [] e.type \in {"TakerPaymentReceived", "TakerPaymentWaitConfirmStarted"} ->
             "ValidateTakerPayment"
      [] e.type = "TakerPaymentValidatedAndConfirmed" -> "SpendTakerPayment"
      [] e.type = "Finished" -> "None"
      [] OTHER -> "Finish"

\* A get_command that resumes a failure after the maker payment at Finish.
get_command_failure_finishes(e) ==
    CASE e.type = "Started" -> "Negotiate"
      [] e.type = "Negotiated" -> "WaitForTakerFee"
      [] e.type = "TakerFeeValidated" -> "SendPayment"
      [] e.type = "MakerPaymentSent" -> "WaitForTakerPayment"
      [] e.type \in {"TakerPaymentReceived", "TakerPaymentWaitConfirmStarted"} ->
             "ValidateTakerPayment"
      [] e.type = "TakerPaymentValidatedAndConfirmed" -> "SpendTakerPayment"
      [] e.type = "Finished" -> "None"
      [] OTHER -> "Finish"

\* A get_command that resumes a failed maker payment at its refund.
get_command_refunds_unsent_payment(e) ==
    CASE e.type = "Started" -> "Negotiate"
      [] e.type = "Negotiated" -> "WaitForTakerFee"
      [] e.type = "TakerFeeValidated" -> "SendPayment"
      [] e.type = "MakerPaymentSent" -> "WaitForTakerPayment"
      [] e.type \in {"MakerPaymentTransactionFailed", "MakerPaymentDataSendFailed",
                     "TakerPaymentValidateFailed", "TakerPaymentSpendFailed"} ->
             "RefundMakerPayment"
      [] e.type \in {"TakerPaymentReceived", "TakerPaymentWaitConfirmStarted"} ->
             "ValidateTakerPayment"
      [] e.type = "TakerPaymentValidatedAndConfirmed" -> "SpendTakerPayment"
      [] e.type = "Finished" -> "None"
      [] OTHER -> "Finish"

\* MakerSavedEvent::get_command
get_command(e) ==
    CASE e.type = "Started" -> "Negotiate"
      [] e.type = "StartFailed" -> "Finish"
      [] e.type = "Negotiated" -> "WaitForTakerFee"
      [] e.type = "NegotiateFailed" -> "Finish"
      [] e.type = "TakerFeeValidated" -> "SendPayment"
      [] e.type = "TakerFeeValidateFailed" -> "Finish"
      [] e.type = "MakerPaymentSent" -> "WaitForTakerPayment"
      [] e.type = "MakerPaymentTransactionFailed" -> "Finish"
      [] e.type = "MakerPaymentDataSendFailed" -> "RefundMakerPayment"
      [] e.type = "TakerPaymentReceived" -> "ValidateTakerPayment"
      [] e.type = "TakerPaymentWaitConfirmStarted" -> "ValidateTakerPayment"
      [] e.type = "TakerPaymentValidatedAndConfirmed" -> "SpendTakerPayment"
      [] e.type = "TakerPaymentValidateFailed" -> "RefundMakerPayment"
      [] e.type = "TakerPaymentSpent" -> "Finish"
      [] e.type = "TakerPaymentSpendFailed" -> "RefundMakerPayment"
      [] e.type = "MakerPaymentRefunded" -> "Finish"
      [] e.type = "MakerPaymentRefundFailed" -> "Finish"
      [] OTHER -> "None"

RECURSIVE ApplyAll(_, _, _)
ApplyAll(sw, events, t) ==
    IF events = << >> THEN sw
    ELSE ApplyAll(apply_event(sw, Head(events), t), Tail(events), t)

\* A load_from_saved that builds the swap without replaying the events.
load_from_saved_without_replay(saved, t) ==
    IF saved # << >> /\ saved[1].type = "Started"
    THEN [ ok |-> TRUE, swap |-> NewSwap(saved[1].data.maker_amount),
           command |-> get_command(Last(saved)) ]
    ELSE [ ok |-> FALSE, swap |-> NewSwap(0), command |-> "None" ]

\* MakerSwap::load_from_saved, at time t
load_from_saved(saved, t) ==
    IF saved = << >>
    THEN [ ok |-> FALSE, swap |-> NewSwap(0), command |-> "None" ]
    ELSE IF saved[1].type = "Started"
         THEN [ ok |-> TRUE,
                swap |-> ApplyAll(NewSwap(saved[1].data.maker_amount), saved, t),
                command |-> get_command(Last(saved)) ]
         ELSE [ ok |-> FALSE, swap |-> NewSwap(0), command |-> "None" ]

\* MakerSavedSwap::is_finished
is_finished(saved) == saved # << >> /\ Last(saved).type = "Finished"

\* MakerSavedSwap::maker_coin / taker_coin: Ok only from a Started first event
has_coin_tickers(saved) == saved # << >> /\ saved[1].type = "Started"

\* save_my_maker_swap_event: the success_events of a new MakerSavedSwap
success_events ==
    << "Started", "Negotiated", "TakerFeeValidated", "MakerPaymentSent",
       "TakerPaymentReceived", "TakerPaymentWaitConfirmStarted",
       "TakerPaymentValidatedAndConfirmed", "TakerPaymentSpent", "Finished" >>


(***************************************************************************)
(* State.                                                                  *)
(***************************************************************************)
VARIABLES
    now,            \* now_ms() / 1000
    phase,          \* "up": the process runs; "down": it crashed, not yet restarted
    crashes,        \* number of process kills and failed writes so far
    enabled,        \* the coins lp_coinfind finds
    coins_needed,   \* what the last swap_kick_starts returned
    running_swaps,  \* SwapsContext::running_swaps: the uuids of the weak references
    pc,             \* where each swap's thread is
    command,        \* run_maker_swap: command
    next,           \* run_maker_swap: res.0
    pending,        \* run_maker_swap: the events of res.1 not yet applied
    swap,           \* the MakerSwap in memory
    disk,           \* the events of SWAPS/MY/<uuid>.json (<< >>: no file)
    chain,          \* the transactions of each swap that were broadcast
    last_run,       \* history: res.0 of the last event saved, the swap in memory after
                    \* the last event the driver applied, and how many it applied
    runs,           \* history: how many times SendPayment ran, per swap
    refund_calls,   \* history: every call of send_maker_refunds_payment
    n_recover,      \* number of recover_funds_of_swap calls so far
    recover_result, \* the result of the last recover_funds_of_swap, per swap
    sent,           \* history: the subjects sent to the taker, per swap
    applied,        \* history: the events applied to the swap in memory so far
    torn,           \* what a cut-short write left of SWAPS/MY/<uuid>.json: "no", "empty", "partial"
    save_failed,    \* history: the swaps whose save failed in this process
    stats,          \* the record in SWAPS/STATS/MAKER/<uuid>.json (<< >>: no file)
    broadcasts,     \* history: the records broadcast as swapstatus, per swap
    broadcast_failed,\* history: the swaps whose broadcast_my_swap_status returned Err
    n_status,       \* number of my_swap_status calls so far
    status,         \* the response of the last my_swap_status
    taker_data,     \* negotiate: the taker_data it decoded, until the driver's next step
    negotiated_sent,\* history: the payloads sent as negotiated@<uuid>, per swap
    recv_call,      \* history: timeout and fallback of the last recv! of each swap
    importing,      \* import_swaps: the uuids whose save_to_db is between its exists check and its write
    details_failing,\* tx_details_by_hash of the coins returns Err (a transport error)
    fee_call,       \* the last call of dex_fee_amount and what it returned
    peer_messages,  \* history: the messages sent to the taker, per swap
    fee_checks      \* the calls the last run of the loops of wait_taker_fee made

vars == << now, phase, crashes, enabled, coins_needed, running_swaps, pc, command,
           next, pending, swap, disk, chain, last_run, runs, refund_calls,
           n_recover, recover_result, sent, applied, torn, save_failed, stats,
           broadcasts, broadcast_failed, n_status, status, taker_data, negotiated_sent,
           recv_call, importing, details_failing, fee_call, peer_messages, fee_checks >>

NoChain ==
    [ maker_payment |-> 0,              \* maker HTLCs broadcast
      maker_payment_spent |-> FALSE,    \* the taker claimed the maker HTLC
      maker_payment_refunded |-> FALSE, \* the maker HTLC was refunded
      taker_payment_spent |-> FALSE ]   \* the maker claimed the taker HTLC

NoStatus == [ uuid |-> "", code |-> 0, events |-> << >>, recoverable |-> FALSE ]

\* No recv! was called.
\* No call of dex_fee_amount has been made.
NoFeeCall == [ base |-> "", rel |-> "", trade_amount |-> 0,
               fee |-> [ num |-> 0, den |-> 1, cut |-> "exact" ] ]

\* The loops of wait_taker_fee have not run.
NoFeeChecks == [ validate_answers |-> << >>, details_answers |-> << >>,
                 validate_fee_calls |-> 0, tx_details_calls |-> 0,
                 event |-> "", next |-> "" ]

NoRecv == [ timeout_sec |-> 0, fallback |-> 0 ]

\* No negotiation-reply was decoded.
NoReply == [ started_at |-> 0, payment_locktime |-> 0 ]

NoResult == [ ok |-> FALSE, err |-> "", calls |-> {}, action |-> "", coin |-> "" ]

\* What every run starts from, whatever the swaps and the faults it has.
InitRest ==
    /\ now = StartEpoch
    /\ phase = "up"
    /\ enabled = {}
    /\ coins_needed = {}
    /\ running_swaps = << >>
    /\ command = [ s \in Swaps |-> "Start" ]
    /\ next = [ s \in Swaps |-> "None" ]
    /\ pending = [ s \in Swaps |-> << >> ]
    /\ swap = [ s \in Swaps |-> NewSwap(0) ]
    /\ disk = [ s \in Swaps |-> << >> ]
    /\ chain = [ s \in Swaps |-> NoChain ]
    /\ last_run = [ s \in Swaps |-> [ next |-> "None", swap |-> NewSwap(0), applied |-> 0 ] ]
    /\ runs = [ s \in Swaps |-> 0 ]
    /\ refund_calls = {}
    /\ recover_result = [ s \in Swaps |-> NoResult ]
    /\ sent = [ s \in Swaps |-> {} ]
    /\ applied = [ s \in Swaps |-> << >> ]
    /\ torn = [ s \in Swaps |-> "no" ]
    /\ save_failed = {}
    /\ stats = [ s \in Swaps |-> << >> ]
    /\ broadcasts = [ s \in Swaps |-> << >> ]
    /\ broadcast_failed = {}
    /\ status = NoStatus
    /\ taker_data = [ s \in Swaps |-> NoReply ]
    /\ negotiated_sent = [ s \in Swaps |-> {} ]
    /\ recv_call = [ s \in Swaps |-> NoRecv ]
    /\ importing = {}
    /\ details_failing = FALSE
    /\ fee_call = NoFeeCall
    /\ peer_messages = [ s \in Swaps |-> {} ]
    /\ fee_checks = NoFeeChecks

\* The runs explored: one swap with process kills, failed writes and
\* restarts; one swap with one such fault left and recover_funds calls; one
\* swap in a process that stays up and is asked for its status; or two swaps
\* side by side in a process that stays up.
Init ==
    /\ \/ /\ pc = [ s \in Swaps |-> IF s = "a" THEN "new" ELSE "absent" ]
          /\ crashes = 0
          /\ n_recover = MaxRecover
          /\ n_status = MaxStatus
       \/ /\ pc = [ s \in Swaps |-> IF s = "a" THEN "new" ELSE "absent" ]
          /\ crashes = MaxCrashes - 1
          /\ n_recover = 0
          /\ n_status = MaxStatus
       \/ /\ pc = [ s \in Swaps |-> IF s = "a" THEN "new" ELSE "absent" ]
          /\ crashes = MaxCrashes
          /\ n_recover = MaxRecover
          /\ n_status = 0
       \/ /\ pc = [ s \in Swaps |-> "new" ]
          /\ crashes = MaxCrashes
          /\ n_recover = MaxRecover
          /\ n_status = MaxStatus
    /\ InitRest

(***************************************************************************)
(* The registry of running swaps.                                          *)
(***************************************************************************)
\* The Arc of run_maker_swap exists: Weak::upgrade gives Some.
Alive(s) == pc[s] \in {"cmd", "details", "save", "apply", "broadcast"}

\* A drain_filter read as a retain of the entries its closure rejects.
dead_entries(reg) == SelectSeq(reg, LAMBDA s : ~Alive(s))

\* the drain_filter of get_locked_amount: the live entries are kept
Pruned(reg) == SelectSeq(reg, Alive)

\* A locked_amount that also releases the amount once the swap is finished.
locked_amount_unless_finished(sw, coin) ==
    [ coin |-> coin,
      amount |-> IF sw.maker_payment # NoTx \/ sw.finished_at # 0 THEN 0
                 ELSE sw.maker_amount ]

\* MakerSwap::locked_amount
locked_amount(sw, coin) ==
    [ coin |-> coin, amount |-> IF sw.maker_payment # NoTx THEN 0 ELSE sw.maker_amount ]

RECURSIVE FoldLocked(_, _, _)
FoldLocked(reg, coin, except_uuid) ==
    IF reg = << >> THEN 0
    ELSE LET s == Head(reg)
             locked == locked_amount(swap[s], MakerCoinOf(s))
         IN  (IF Alive(s) /\ locked.coin = coin /\ s # except_uuid
              THEN locked.amount ELSE 0)
             + FoldLocked(Tail(reg), coin, except_uuid)

\* get_locked_amount: the value returned
get_locked_amount(coin) == FoldLocked(Pruned(running_swaps), coin, "")

\* A get_locked_amount_by_other_swaps that does not skip except_uuid.
get_locked_amount_of_all_swaps(except_uuid, coin) ==
    FoldLocked(Pruned(running_swaps), coin, "")

\* get_locked_amount_by_other_swaps: the value returned
get_locked_amount_by_other_swaps(except_uuid, coin) ==
    FoldLocked(Pruned(running_swaps), coin, except_uuid)

\* run_maker_swap: running_swaps.push(Arc::downgrade(&swap))
registry_after_run_maker_swap(reg, s) == Append(reg, s)

\* A load_from_saved that registers the swap it builds.
registry_after_registering_load(reg, s) == Append(reg, s)

\* MakerSwap::load_from_saved: MakerSwap::new and apply_event do not touch
\* SwapsContext, the registry stays as it is.
registry_after_load_from_saved(reg, s) == reg

\* MarketCoinOps::my_balance of a coin, when the call succeeds: what the
\* maker HTLCs on the chain leave of the initial balance.
RECURSIVE SumHtlc(_, _)
SumHtlc(S, coin) ==
    IF S = {} THEN 0
    ELSE LET s == CHOOSE x \in S : TRUE
         IN  (IF MakerCoinOf(s) = coin /\ ~chain[s].maker_payment_refunded
              THEN chain[s].maker_payment * MakerAmountOf(s) ELSE 0)
             + SumHtlc(S \ {s}, coin)

my_balance(coin) == InitialBalance - SumHtlc(Swaps, coin)


(***************************************************************************)
(* run_maker_swap: the driver.                                             *)
(***************************************************************************)
\* The thread of swap s is in the loop of run_maker_swap, about to call
\* handle_command(cmd).
Handles(s, cmd) == phase = "up" /\ pc[s] = "cmd" /\ command[s] = cmd

\* The handler returned Ok((nxt, evs)).
Emit(s, nxt, evs) ==
    /\ pc' = [ pc EXCEPT ![s] = "save" ]
    /\ next' = [ next EXCEPT ![s] = nxt ]
    /\ pending' = [ pending EXCEPT ![s] = evs ]

\* The handler has its transaction: `loop { match tx_details_by_hash(&hash) }`
\* breaks with the details and the handler returns Ok((nxt, evs)), or the call
\* fails and the loop sleeps and goes round again.
TxSent(s, nxt, evs) ==
    IF details_failing
    THEN pc' = [ pc EXCEPT ![s] = "details" ] /\ UNCHANGED << next, pending >>
    ELSE Emit(s, nxt, evs)

\* An unwrap of the handler panicked: the thread ends and drops the swap.
Panic(s) ==
    /\ pc' = [ pc EXCEPT ![s] = "stopped" ]
    /\ UNCHANGED << next, pending >>

\* A subject that names the message of the handler after this one.
peer_subject_one_handler_early(cmd) ==
    CASE cmd = "Negotiate" -> "negotiated"
      [] cmd = "WaitForTakerFee" -> "maker-payment"
      [] cmd = "WaitForTakerPayment" -> "maker-payment"

\* The subject of the send! of each handler that sends to the taker.
peer_subject(cmd) ==
    CASE cmd = "Negotiate" -> "negotiation"
      [] cmd = "WaitForTakerFee" -> "negotiated"
      [] cmd = "WaitForTakerPayment" -> "maker-payment"

\* serialize of a bool: one byte, 1 for true and 0 for false
serialize_bool(b) == IF b THEN 1 ELSE 0

\* wait_taker_fee: `let negotiated = serialize(&true)`
negotiated_payload == serialize_bool(TRUE)

\* dhash160 of a secret: a digest, which is not the secret.
dhash160(secret) == (secret * 37 + 11) % 256

\* A digest that gives its input back.
dhash160_in_the_clear(secret) == secret

\* negotiate: SwapNegotiationData.secret_hash
negotiation_secret_hash(secret) == dhash160(secret)

\* The bytes of the send! of each handler: the serialized SwapNegotiationData
\* of negotiate, the serialized `true` of wait_taker_fee, and the tx_hex of
\* the maker payment of wait_for_taker_payment.
peer_message(s, cmd) ==
    [ subject          |-> peer_subject(cmd),
      started_at       |-> IF cmd = "Negotiate" THEN swap[s].data.started_at ELSE 0,
      payment_locktime |-> IF cmd = "Negotiate" THEN swap[s].data.maker_payment_lock ELSE 0,
      secret_hash      |-> IF cmd = "Negotiate"
                           THEN negotiation_secret_hash(swap[s].data.secret) ELSE 0,
      negotiated       |-> IF cmd = "WaitForTakerFee" THEN negotiated_payload ELSE 0,
      tx_hex           |-> IF cmd = "WaitForTakerPayment" THEN swap[s].maker_payment ELSE NoTx ]

\* send! returned Ok: the message of the handler is on its way to the taker.
Send(s, cmd) ==
    /\ sent' = [ sent EXCEPT ![s] = @ \cup {peer_subject(cmd)} ]
    /\ peer_messages' = [ peer_messages EXCEPT ![s] = @ \cup {peer_message(s, cmd)} ]

Min(a, b) == IF a < b THEN a ELSE b
Max(a, b) == IF a > b THEN a ELSE b

\* recv_: `let fallback = ($timeout_sec / 3) .min (30) .max (60) as u8`
recv_fallback(timeout_sec) == Max(Min(timeout_sec \div 3, 30), 60) % 256

\* The $timeout_sec of the recv! of each handler that receives from the taker.
recv_timeout(cmd, data) ==
    CASE cmd = "Negotiate" -> 90
      [] cmd = "WaitForTakerFee" -> 600
      [] cmd = "WaitForTakerPayment" -> data.lock_duration \div 3

\* recv! is called: peers::recv gets the fallback.
Recv(s, cmd) ==
    recv_call' = [ recv_call EXCEPT ![s] =
                     [ timeout_sec |-> recv_timeout(cmd, swap[s].data),
                       fallback |-> recv_fallback(recv_timeout(cmd, swap[s].data)) ] ]

\* The matcher hands a swap over: run_maker_swap(MakerSwap::new(..), None),
\* up to the first iteration of the loop.
RunMakerSwap(s) ==
    /\ phase = "up"
    /\ pc[s] = "new"
    /\ now = StartEpoch
    /\ {MakerCoinOf(s), TakerCoinOf(s)} \subseteq enabled
    /\ swap' = [ swap EXCEPT ![s] = NewSwap(MakerAmountOf(s)) ]
    /\ command' = [ command EXCEPT ![s] = "Start" ]
    /\ running_swaps' = registry_after_run_maker_swap(running_swaps, s)
    /\ pc' = [ pc EXCEPT ![s] = "cmd" ]
    /\ last_run' = [ last_run EXCEPT ![s].swap = swap'[s] ]
    /\ applied' = [ applied EXCEPT ![s] = << >> ]
    /\ UNCHANGED << now, phase, crashes, enabled, coins_needed, next, pending, disk,
                    chain, runs, refund_calls, n_recover, recover_result, sent, torn,
                    save_failed, stats, broadcasts, broadcast_failed, n_status, status,
                    taker_data, negotiated_sent, recv_call, importing, details_failing,
                    fee_call, peer_messages, fee_checks >>

\* What json::from_slice(&slurp(path)) gives a reader of SWAPS/MY/<uuid>.json:
\* the record, or no record when the file is missing, empty or cut short.
read_saved(s) == IF torn[s] = "no" THEN disk[s] ELSE << >>

\* File::create truncates the file and write_all fills it: a write that is
\* cut short leaves the file empty or with a part of the new record.
CutShort == {"empty", "partial"}

\* The process dies: every thread and everything in memory is gone, the
\* files and the chain stay.
ProcessDies ==
    /\ phase' = "down"
    /\ crashes' = crashes + 1
    /\ enabled' = {}
    /\ coins_needed' = {}
    /\ running_swaps' = << >>
    /\ pc' = [ s \in Swaps |-> IF pc[s] = "new" THEN "new" ELSE "stopped" ]
    /\ command' = [ s \in Swaps |-> "Start" ]
    /\ next' = [ s \in Swaps |-> "None" ]
    /\ pending' = [ s \in Swaps |-> << >> ]
    /\ swap' = [ s \in Swaps |-> NewSwap(0) ]
    /\ applied' = [ s \in Swaps |-> << >> ]
    /\ taker_data' = [ s \in Swaps |-> NoReply ]

\* A save that writes the record back without the new event.
saved_without_push(events, e) == events

\* save_my_maker_swap_event: `maker_swap.events.push(event)`, the record written
saved_with(events, e) == Append(events, e)

\* save_my_maker_swap_event of the next event of res.1
SaveEvent(s) ==
    /\ phase = "up"
    /\ pc[s] = "save"
    /\ disk' = [ disk EXCEPT ![s] = saved_with(@, Head(pending[s])) ]
    /\ last_run' = [ last_run EXCEPT ![s].next = next[s] ]
    /\ pc' = [ pc EXCEPT ![s] = "apply" ]
    /\ taker_data' = [ taker_data EXCEPT ![s] = NoReply ]
    /\ UNCHANGED << now, phase, crashes, enabled, coins_needed, running_swaps, command,
                    next, pending, swap, chain, runs, refund_calls, n_recover,
                    recover_result, sent, applied, torn, save_failed, stats, broadcasts,
                    broadcast_failed, n_status, status, negotiated_sent, recv_call,
                    importing, details_failing, fee_call, peer_messages, fee_checks >>

\* What the thread of run_maker_swap does when save_my_maker_swap_event
\* returned Err and the failure is ignored.
after_failed_save_goes_on == "apply"

\* run_maker_swap: unwrap!(save_my_maker_swap_event(..)) panics, the thread
\* of the swap ends.
after_failed_save == "stopped"

\* save_my_maker_swap_event returns Err: File::create failed (the file stays
\* whole) or write_all failed (the file is cut short). The unwrap! of
\* run_maker_swap panics; the panic ends the thread of the swap alone or the
\* whole process, as the build decides.
SaveFails(s) ==
    /\ phase = "up"
    /\ pc[s] = "save"
    /\ crashes < MaxCrashes
    /\ save_failed' = save_failed \cup {s}
    /\ \E cut \in {"no"} \cup CutShort :
          torn' = [ torn EXCEPT ![s] = IF cut = "no" THEN @ ELSE cut ]
    /\ \/ /\ pc' = [ pc EXCEPT ![s] = after_failed_save ]
          /\ crashes' = crashes + 1
          /\ taker_data' = [ taker_data EXCEPT ![s] = NoReply ]
          /\ UNCHANGED << phase, enabled, coins_needed, running_swaps, command,
                          next, pending, swap, applied, details_failing, fee_call,
                          peer_messages, fee_checks >>
       \/ /\ after_failed_save = "stopped"
          /\ ProcessDies
    /\ UNCHANGED << now, disk, chain, last_run, runs, refund_calls, n_recover,
                    recover_result, sent, stats, broadcasts, broadcast_failed, n_status,
                    status, negotiated_sent, recv_call, importing, details_failing,
                    fee_call, peer_messages, fee_checks >>

\* apply_event of the event just saved; after the last event of res.1 the
\* match on res.0.
ApplyEvent(s) ==
    /\ phase = "up"
    /\ pc[s] = "apply"
    /\ swap' = [ swap EXCEPT ![s] = apply_event(@, Head(pending[s]), now) ]
    /\ last_run' = [ last_run EXCEPT ![s].swap = swap'[s], ![s].applied = Len(disk[s]) ]
    /\ pending' = [ pending EXCEPT ![s] = Tail(@) ]
    /\ IF Tail(pending[s]) # << >>
       THEN pc' = [ pc EXCEPT ![s] = "save" ] /\ UNCHANGED command
       ELSE IF next[s] = "None"
            THEN pc' = [ pc EXCEPT ![s] = "broadcast" ] /\ UNCHANGED command
            ELSE /\ pc' = [ pc EXCEPT ![s] = "cmd" ]
                 /\ command' = [ command EXCEPT ![s] = next[s] ]
    /\ applied' = [ applied EXCEPT ![s] = Append(@, Head(pending[s])) ]
    /\ UNCHANGED << now, phase, crashes, enabled, coins_needed, running_swaps, next,
                    disk, chain, runs, refund_calls, n_recover, recover_result, sent,
                    torn, save_failed, stats, broadcasts, broadcast_failed, n_status,
                    status, taker_data, negotiated_sent, recv_call, importing,
                    details_failing, fee_call, peer_messages, fee_checks >>

\* A hide_secret that leaves the record as it is.
hide_secret_nowhere(saved) == saved

\* MakerSavedSwap::hide_secret
hide_secret(saved) ==
    IF saved # << >> /\ saved[1].type = "Started"
    THEN [ saved EXCEPT ![1].data.secret = 0 ]
    ELSE saved

\* broadcast_my_swap_status, then run_maker_swap returns and drops the swap.
\* An Err of broadcast_my_swap_status (the file does not parse, or
\* save_stats_swap fails) is logged and nothing is broadcast.
BroadcastStatus(s) ==
    /\ phase = "up"
    /\ pc[s] = "broadcast"
    /\ pc' = [ pc EXCEPT ![s] = "done" ]
    /\ \/ /\ read_saved(s) # << >>
          /\ stats' = [ stats EXCEPT ![s] = hide_secret(read_saved(s)) ]
          /\ broadcasts' = [ broadcasts EXCEPT ![s] = Append(@, hide_secret(read_saved(s))) ]
          /\ UNCHANGED << crashes, broadcast_failed >>
       \/ /\ read_saved(s) = << >> \/ crashes < MaxCrashes
          /\ crashes' = IF read_saved(s) = << >> THEN crashes ELSE crashes + 1
          /\ broadcast_failed' = broadcast_failed \cup {s}
          /\ UNCHANGED << stats, broadcasts >>
    /\ UNCHANGED << now, phase, enabled, coins_needed, running_swaps, command,
                    next, pending, swap, disk, chain, last_run, runs, refund_calls,
                    n_recover, recover_result, sent, applied, torn, save_failed,
                    n_status, status, taker_data, negotiated_sent, recv_call, importing,
                    details_failing, fee_call, peer_messages, fee_checks >>

(***************************************************************************)
(* The command handlers of MakerSwap.                                      *)
(***************************************************************************)
\* MakerSwap::start: `self.maker_amount > available`
amount_exceeds_available(amount, balance, locked) == amount > balance - locked

StartData(s, secret) ==
    LET lock_duration == lp_atomic_locktime(MakerCoinOf(s), TakerCoinOf(s))
    IN  [ started_at |-> now, lock_duration |-> lock_duration,
          maker_payment_lock |-> now + lock_duration * 2,
          secret |-> secret, maker_amount |-> swap[s].maker_amount,
          maker_coin |-> MakerCoinOf(s), taker_coin |-> TakerCoinOf(s) ]

Start(s) ==
    /\ Handles(s, "Start")
    /\ \/ /\ Emit(s, "Finish", << EvErr("StartFailed", "!my_balance") >>)
          /\ UNCHANGED running_swaps
       \/ LET balance == my_balance(MakerCoinOf(s))
              locked == get_locked_amount_by_other_swaps(s, MakerCoinOf(s))
          IN  /\ running_swaps' = Pruned(running_swaps)
              /\ IF amount_exceeds_available(swap[s].maker_amount, balance, locked)
                 THEN Emit(s, "Finish",
                           << EvErr("StartFailed", "maker amount is larger than available") >>)
                 ELSE \* check_i_have_enough_to_trade, can_i_spend_other_payment
                      \* or one of the two current_block calls fails
                      \/ Emit(s, "Finish", << EvErr("StartFailed", "!coin") >>)
                      \/ \E secret \in Secrets :
                            Emit(s, "Negotiate", << EvStarted(StartData(s, secret)) >>)
    /\ UNCHANGED << now, phase, crashes, enabled, coins_needed, command, swap, disk,
                    chain, last_run, runs, refund_calls, n_recover, recover_result, sent,
                    applied, torn, save_failed, stats, broadcasts, broadcast_failed,
                    n_status, status, taker_data, negotiated_sent, recv_call, importing,
                    details_failing, fee_call, peer_messages, fee_checks >>

Abs(x) == IF x < 0 THEN 0 - x ELSE x

\* A negotiate without the time_dif check.
negotiate_check_without_time_dif(data, taker_started_at, taker_payment_locktime) ==
    IF taker_payment_locktime # taker_started_at + data.lock_duration
    THEN "taker_data.payment_locktime not equal to expected"
    ELSE "ok"

\* A negotiate that already rejects a time_dif of 60.
negotiate_check_rejects_sixty(data, taker_started_at, taker_payment_locktime) ==
    IF Abs(data.started_at - taker_started_at) >= MaxTimeDif
    THEN "Started_at time_dif over 60"
    ELSE IF taker_payment_locktime # taker_started_at + data.lock_duration
         THEN "taker_data.payment_locktime not equal to expected"
         ELSE "ok"

\* MakerSwap::negotiate: the checks of the taker's SwapNegotiationData
negotiate_check(data, taker_started_at, taker_payment_locktime) ==
    IF Abs(data.started_at - taker_started_at) > MaxTimeDif
    THEN "Started_at time_dif over 60"
    ELSE IF taker_payment_locktime # taker_started_at + data.lock_duration
         THEN "taker_data.payment_locktime not equal to expected"
         ELSE "ok"

Negotiate(s) ==
    /\ Handles(s, "Negotiate")
    /\ \/ \* the send fails
          /\ Emit(s, "Finish", << EvErr("NegotiateFailed", "send negotiation") >>)
          /\ UNCHANGED << sent, peer_messages, recv_call >>
          /\ taker_data' = [ taker_data EXCEPT ![s] = NoReply ]
       \/ \* the recv or the deserialize fails
          /\ Emit(s, "Finish", << EvErr("NegotiateFailed", "!negotiation-reply") >>)
          /\ Send(s, "Negotiate")
          /\ Recv(s, "Negotiate")
          /\ taker_data' = [ taker_data EXCEPT ![s] = NoReply ]
       \/ \E skew \in TakerSkews, off \in {0, 1} :
             LET taker_started_at == swap[s].data.started_at + skew
                 taker_payment_locktime ==
                     taker_started_at + swap[s].data.lock_duration + off
                 res == negotiate_check(swap[s].data, taker_started_at,
                                        taker_payment_locktime)
             IN  /\ IF res # "ok"
                    THEN Emit(s, "Finish", << EvErr("NegotiateFailed", res) >>)
                    ELSE Emit(s, "WaitForTakerFee",
                              << EvNegotiated(taker_payment_locktime) >>)
                 /\ Send(s, "Negotiate")
                 /\ Recv(s, "Negotiate")
                 /\ taker_data' = [ taker_data EXCEPT ![s] =
                                      [ started_at |-> taker_started_at,
                                        payment_locktime |-> taker_payment_locktime ] ]
    /\ UNCHANGED << now, phase, crashes, enabled, coins_needed, running_swaps, command,
                    swap, disk, chain, last_run, runs, refund_calls, n_recover,
                    recover_result, applied, torn, save_failed, stats, broadcasts,
                    broadcast_failed, n_status, status, negotiated_sent, importing,
                    details_failing, fee_call, fee_checks >>

WaitTakerFee(s) ==
    /\ Handles(s, "WaitForTakerFee")
    /\ \/ /\ Emit(s, "Finish", << EvErr("NegotiateFailed", "send negotiated") >>)
          /\ UNCHANGED << sent, peer_messages, negotiated_sent, recv_call >>
       \/ /\ \/ \* the recv, tx_enum_from_bytes, the last validate_fee or the last
                \* tx_details_by_hash fails
                Emit(s, "Finish", << EvErr("TakerFeeValidateFailed", "!taker_fee") >>)
             \/ Emit(s, "SendPayment", << EvTx("TakerFeeValidated", "taker_fee") >>)
          /\ Send(s, "WaitForTakerFee")
          /\ Recv(s, "WaitForTakerFee")
          /\ negotiated_sent' = [ negotiated_sent EXCEPT ![s] = @ \cup {negotiated_payload} ]
    /\ UNCHANGED << now, phase, crashes, enabled, coins_needed, running_swaps, command,
                    swap, disk, chain, last_run, runs, refund_calls, n_recover,
                    recover_result, applied, torn, save_failed, stats, broadcasts,
                    broadcast_failed, n_status, status, taker_data, importing,
                    details_failing, fee_call, fee_checks >>

\* A deadline that is already over at the timeout itself.
maker_payment_timed_out_at_timeout(data, t) ==
    t >= data.started_at + data.lock_duration \div 3

\* MakerSwap::maker_payment: `now > timeout`
maker_payment_timed_out(data, t) == t > data.started_at + data.lock_duration \div 3

\* SwapOps::check_if_my_payment_sent, when the call succeeds
check_if_my_payment_sent(ch) == IF ch.maker_payment > 0 THEN "Some" ELSE "None"

\* A maker_payment that calls send_maker_payment whatever the probe found.
calls_send_maker_payment_always(found) == TRUE

\* MakerSwap::maker_payment: send_maker_payment is called in the None arm only
calls_send_maker_payment(found) == found = "None"

MakerPayment(s) ==
    /\ Handles(s, "SendPayment")
    /\ runs' = [ runs EXCEPT ![s] = @ + 1 ]
    /\ IF maker_payment_timed_out(swap[s].data, now)
       THEN /\ Emit(s, "Finish", << EvErr("MakerPaymentTransactionFailed", "Timeout") >>)
            /\ UNCHANGED chain
       ELSE \/ /\ Emit(s, "Finish", << EvErr("MakerPaymentTransactionFailed",
                                             "!maker_coin") >>)
               /\ UNCHANGED chain
            \/ IF calls_send_maker_payment(check_if_my_payment_sent(chain[s]))
               THEN \/ /\ chain' = [ chain EXCEPT ![s].maker_payment = @ + 1 ]
                       /\ TxSent(s, "WaitForTakerPayment",
                                 << EvTx("MakerPaymentSent", "maker_payment") >>)
                    \/ \E broadcast \in BOOLEAN :
                       /\ chain' = [ chain EXCEPT ![s].maker_payment =
                                                     IF broadcast THEN @ + 1 ELSE @ ]
                       /\ Emit(s, "Finish", << EvErr("MakerPaymentTransactionFailed",
                                                     "!maker_coin") >>)
               ELSE /\ TxSent(s, "WaitForTakerPayment",
                              << EvTx("MakerPaymentSent", "maker_payment") >>)
                    /\ UNCHANGED chain
    /\ UNCHANGED << now, phase, crashes, enabled, coins_needed, running_swaps, command,
                    swap, disk, last_run, refund_calls, n_recover, recover_result, sent,
                    applied, torn, save_failed, stats, broadcasts, broadcast_failed,
                    n_status, status, taker_data, negotiated_sent, recv_call, importing,
                    details_failing, fee_call, peer_messages, fee_checks >>

WaitForTakerPayment(s) ==
    /\ Handles(s, "WaitForTakerPayment")
    /\ IF swap[s].maker_payment = NoTx
       THEN Panic(s) /\ UNCHANGED << sent, peer_messages, recv_call >>
       ELSE \/ /\ Emit(s, "RefundMakerPayment",
                       << EvErr("MakerPaymentDataSendFailed", "send maker-payment") >>)
               /\ UNCHANGED << sent, peer_messages, recv_call >>
            \/ \* the recv, tx_enum_from_bytes or the last tx_details_by_hash fails
               /\ Emit(s, "RefundMakerPayment",
                       << EvErr("TakerPaymentValidateFailed", "!taker_payment") >>)
               /\ Send(s, "WaitForTakerPayment")
               /\ Recv(s, "WaitForTakerPayment")
            \/ /\ Emit(s, "ValidateTakerPayment",
                       << EvTx("TakerPaymentReceived", "taker_payment"),
                          Ev("TakerPaymentWaitConfirmStarted") >>)
               /\ Send(s, "WaitForTakerPayment")
               /\ Recv(s, "WaitForTakerPayment")
    /\ UNCHANGED << now, phase, crashes, enabled, coins_needed, running_swaps, command,
                    swap, disk, chain, last_run, runs, refund_calls, n_recover,
                    recover_result, applied, torn, save_failed, stats, broadcasts,
                    broadcast_failed, n_status, status, taker_data, negotiated_sent,
                    importing, details_failing, fee_call, fee_checks >>

ValidateTakerPayment(s) ==
    /\ Handles(s, "ValidateTakerPayment")
    /\ IF swap[s].taker_payment = NoTx
       THEN Panic(s)
       ELSE \/ \* validate_taker_payment or wait_for_confirmations fails
               Emit(s, "RefundMakerPayment",
                    << EvErr("TakerPaymentValidateFailed", "!taker_coin") >>)
            \/ Emit(s, "SpendTakerPayment", << Ev("TakerPaymentValidatedAndConfirmed") >>)
    /\ UNCHANGED << now, phase, crashes, enabled, coins_needed, running_swaps, command,
                    swap, disk, chain, last_run, runs, refund_calls, n_recover,
                    recover_result, sent, applied, torn, save_failed, stats, broadcasts,
                    broadcast_failed, n_status, status, taker_data, negotiated_sent,
                    recv_call, importing, details_failing, fee_call, peer_messages,
                    fee_checks >>

SpendTakerPayment(s) ==
    /\ Handles(s, "SpendTakerPayment")
    /\ IF swap[s].taker_payment = NoTx
       THEN Panic(s) /\ UNCHANGED chain
       ELSE \/ /\ ~chain[s].taker_payment_spent
               /\ chain' = [ chain EXCEPT ![s].taker_payment_spent = TRUE ]
               /\ \/ TxSent(s, "Finish",
                            << EvTx("TakerPaymentSpent", "taker_payment_spend") >>)
                  \/ Emit(s, "RefundMakerPayment",
                          << EvErr("TakerPaymentSpendFailed",
                                   "!taker_coin.send_maker_spends_taker_payment") >>)
            \/ /\ Emit(s, "RefundMakerPayment",
                       << EvErr("TakerPaymentSpendFailed",
                                "!taker_coin.send_maker_spends_taker_payment") >>)
               /\ UNCHANGED chain
    /\ UNCHANGED << now, phase, crashes, enabled, coins_needed, running_swaps, command,
                    swap, disk, last_run, runs, refund_calls, n_recover, recover_result,
                    sent, applied, torn, save_failed, stats, broadcasts,
                    broadcast_failed, n_status, status, taker_data, negotiated_sent,
                    recv_call, importing, details_failing, fee_call, peer_messages,
                    fee_checks >>

\* MakerSwap::refund_maker_payment: the condition of the while loop
refund_must_wait(data, t) == t < data.maker_payment_lock + RefundGrace

\* The chain accepts a refund of the maker HTLC: it exists and is unspent.
Refundable(ch) ==
    ch.maker_payment > 0 /\ ~ch.maker_payment_spent /\ ~ch.maker_payment_refunded

RefundCall(s, by, lock) == [ uuid |-> s, by |-> by, at |-> now, lock |-> lock ]

RefundMakerPayment(s) ==
    /\ Handles(s, "RefundMakerPayment")
    /\ ~refund_must_wait(swap[s].data, now)
    /\ IF swap[s].maker_payment = NoTx
       THEN Panic(s) /\ UNCHANGED << chain, refund_calls >>
       ELSE /\ refund_calls' =
                  refund_calls \cup { RefundCall(s, "driver", swap[s].data.maker_payment_lock) }
            /\ \/ /\ Refundable(chain[s])
                  /\ chain' = [ chain EXCEPT ![s].maker_payment_refunded = TRUE ]
                  /\ TxSent(s, "Finish",
                            << EvTx("MakerPaymentRefunded", "maker_payment_refund") >>)
               \/ /\ Emit(s, "Finish",
                          << EvErr("MakerPaymentRefundFailed",
                                   "!maker_coin.send_maker_refunds_payment") >>)
                  /\ UNCHANGED chain
    /\ UNCHANGED << now, phase, crashes, enabled, coins_needed, running_swaps, command,
                    swap, disk, last_run, runs, n_recover, recover_result, sent, applied,
                    torn, save_failed, stats, broadcasts, broadcast_failed, n_status,
                    status, taker_data, negotiated_sent, recv_call, importing,
                    details_failing, fee_call, peer_messages, fee_checks >>

\* The loop on tx_details_by_hash of maker_payment, spend_taker_payment or
\* refund_maker_payment gets its answer and the handler returns.
TxDetails(s) ==
    /\ phase = "up"
    /\ pc[s] = "details"
    /\ ~details_failing
    /\ CASE command[s] = "SendPayment" ->
               Emit(s, "WaitForTakerPayment", << EvTx("MakerPaymentSent", "maker_payment") >>)
         [] command[s] = "SpendTakerPayment" ->
               Emit(s, "Finish", << EvTx("TakerPaymentSpent", "taker_payment_spend") >>)
         [] command[s] = "RefundMakerPayment" ->
               Emit(s, "Finish", << EvTx("MakerPaymentRefunded", "maker_payment_refund") >>)
    /\ UNCHANGED << now, phase, crashes, enabled, coins_needed, running_swaps, command,
                    swap, disk, chain, last_run, runs, refund_calls, n_recover,
                    recover_result, sent, applied, torn, save_failed, stats, broadcasts,
                    broadcast_failed, n_status, status, taker_data, negotiated_sent,
                    recv_call, importing, details_failing, fee_call, peer_messages,
                    fee_checks >>

\* The coins' tx_details_by_hash starts to fail.
DetailsFail ==
    /\ ~details_failing
    /\ details_failing' = TRUE
    /\ UNCHANGED << now, phase, crashes, enabled, coins_needed, running_swaps, command,
                    pc, next, pending,
                    swap, disk, chain, last_run, runs, refund_calls, n_recover,
                    recover_result, sent, applied, torn, save_failed, stats, broadcasts,
                    broadcast_failed, n_status, status, taker_data, negotiated_sent,
                    recv_call, importing, fee_call, peer_messages, fee_checks >>

\* The coins' tx_details_by_hash answers again.
DetailsAnswer ==
    /\ details_failing
    /\ details_failing' = FALSE
    /\ UNCHANGED << now, phase, crashes, enabled, coins_needed, running_swaps, command,
                    pc, next, pending,
                    swap, disk, chain, last_run, runs, refund_calls, n_recover,
                    recover_result, sent, applied, torn, save_failed, stats, broadcasts,
                    broadcast_failed, n_status, status, taker_data, negotiated_sent,
                    recv_call, importing, fee_call, peer_messages, fee_checks >>

Finish(s) ==
    /\ Handles(s, "Finish")
    /\ Emit(s, "None", << Ev("Finished") >>)
    /\ UNCHANGED << now, phase, crashes, enabled, coins_needed, running_swaps, command,
                    swap, disk, chain, last_run, runs, refund_calls, n_recover,
                    recover_result, sent, applied, torn, save_failed, stats, broadcasts,
                    broadcast_failed, n_status, status, taker_data, negotiated_sent,
                    recv_call, importing, details_failing, fee_call, peer_messages,
                    fee_checks >>


(***************************************************************************)
(* Crash, restart and kick-start.                                          *)
(***************************************************************************)
\* The process is killed. A thread inside save_my_maker_swap_event may be
\* before File::create (the file stays whole) or between File::create and the
\* end of write_all (the file is cut short); a kill after write_all is the
\* kill that follows SaveEvent.
Crash ==
    /\ phase = "up"
    /\ crashes < MaxCrashes
    /\ ProcessDies
    /\ \E cut \in [ Swaps -> {"no"} \cup CutShort ] :
          /\ \A s \in Swaps : pc[s] # "save" => cut[s] = "no"
          /\ torn' = [ s \in Swaps |-> IF cut[s] = "no" THEN torn[s] ELSE cut[s] ]
    /\ UNCHANGED << now, disk, chain, last_run, runs, refund_calls, n_recover,
                    recover_result, sent, save_failed, stats, broadcasts,
                    broadcast_failed, n_status, status, negotiated_sent, recv_call,
                    importing, details_failing, fee_call, peer_messages, fee_checks >>

\* A swap_kick_starts that spawns finished swaps as well.
kick_started_also_finished(saved) == has_coin_tickers(saved)

\* swap_kick_starts: the saved swap is spawned
kick_started(saved) == ~is_finished(saved) /\ has_coin_tickers(saved)

\* swap_kick_starts: the set returned
kick_start_coins(files) ==
    UNION { { files[s][1].data.maker_coin, files[s][1].data.taker_coin } :
            s \in { x \in DOMAIN files : kick_started(files[x]) } }

\* The process starts again and calls swap_kick_starts.
SwapKickStarts ==
    /\ phase = "down"
    /\ phase' = "up"
    /\ coins_needed' = kick_start_coins([ s \in Swaps |-> read_saved(s) ])
    /\ pc' = [ s \in Swaps |-> IF kick_started(read_saved(s)) THEN "kick" ELSE pc[s] ]
    /\ save_failed' = {}
    /\ UNCHANGED << now, crashes, enabled, running_swaps, command, next, pending, swap,
                    disk, chain, last_run, runs, refund_calls, n_recover, recover_result,
                    sent, applied, torn, stats, broadcasts, broadcast_failed, n_status,
                    status, taker_data, negotiated_sent, recv_call, importing,
                    details_failing, fee_call, peer_messages, fee_checks >>

\* lp_coins::enable / electrum
EnableCoin(c) ==
    /\ phase = "up"
    /\ c \notin enabled
    /\ enabled' = enabled \cup {c}
    /\ UNCHANGED << now, phase, crashes, coins_needed, running_swaps, pc, command, next,
                    pending, swap, disk, chain, last_run, runs, refund_calls, n_recover,
                    recover_result, sent, applied, torn, save_failed, stats, broadcasts,
                    broadcast_failed, n_status, status, taker_data, negotiated_sent,
                    recv_call, importing, details_failing, fee_call, peer_messages,
                    fee_checks >>

\* The thread swap_kick_starts spawned: both lp_coinfind loops have found
\* their coin (a coin once enabled stays enabled, so the two loops end when
\* both coins are enabled), then load_from_saved and run_maker_swap up to
\* the first iteration of its loop.
KickStart(s) ==
    /\ phase = "up"
    /\ pc[s] = "kick"
    /\ TakerCoinOf(s) \in enabled
    /\ MakerCoinOf(s) \in enabled
    /\ LET loaded == load_from_saved(disk[s], now)
       IN  IF loaded.ok
           THEN /\ swap' = [ swap EXCEPT ![s] = loaded.swap ]
                /\ command' = [ command EXCEPT ![s] =
                                  IF loaded.command = "None" THEN "Start"
                                  ELSE loaded.command ]
                /\ running_swaps' =
                      registry_after_run_maker_swap(
                          registry_after_load_from_saved(running_swaps, s), s)
                /\ applied' = [ applied EXCEPT ![s] = disk[s] ]
                /\ pc' = [ pc EXCEPT ![s] = "cmd" ]
           ELSE /\ pc' = [ pc EXCEPT ![s] = "stopped" ]
                /\ UNCHANGED << swap, command, running_swaps, applied >>
    /\ UNCHANGED << now, phase, crashes, enabled, coins_needed, next, pending, disk,
                    chain, last_run, runs, refund_calls, n_recover, recover_result, sent,
                    torn, save_failed, stats, broadcasts, broadcast_failed, n_status,
                    status, taker_data, negotiated_sent, recv_call, importing,
                    details_failing, fee_call, peer_messages, fee_checks >>

(***************************************************************************)
(* recover_funds.                                                          *)
(***************************************************************************)
\* A recover_funds that refunds as soon as the lock time is reached.
recover_too_early_without_grace(data, t) == t < data.maker_payment_lock

\* MakerSwap::recover_funds: `now < maker_payment_lock + 3700`
recover_too_early(data, t) == t < data.maker_payment_lock + RefundGrace

Failed(e, calls) == [ ok |-> FALSE, err |-> e, calls |-> calls, action |-> "", coin |-> "" ]

\* Ok(RecoveredSwap { action: RefundedMyPayment, coin: maker_coin.ticker(), .. })
Recovered(sw, calls) ==
    [ ok |-> TRUE, err |-> "", calls |-> calls,
      action |-> "RefundedMyPayment", coin |-> sw.data.maker_coin ]

\* A recover_funds without its three first checks.
recover_precondition_none(sw) == "ok"

\* MakerSwap::recover_funds: the three checks before any coin operation
recover_precondition(sw) ==
    IF sw.finished_at = 0
    THEN "Swap must be finished before recover funds attempt"
    ELSE IF sw.maker_payment_refund # NoTx
    THEN "Maker payment is refunded, swap is not recoverable"
    ELSE IF sw.taker_payment_spend # NoTx
    THEN "Taker payment is spent, swap is not recoverable"
    ELSE "ok"

\* A recover_funds that asks the coin for the payment whatever the log holds.
needs_payment_probe_always(sw) == TRUE

\* MakerSwap::recover_funds: `match &self.maker_payment`, the None arm calls
\* check_if_my_payment_sent
needs_payment_probe(sw) == sw.maker_payment = NoTx

\* SwapOps::search_for_swap_tx_spend_my, when the call succeeds: what the
\* chain holds of the spend of the maker payment
search_for_swap_tx_spend_my(ch) ==
    IF ch.maker_payment_spent THEN "Spent"
    ELSE IF ch.maker_payment_refunded THEN "Refunded"
    ELSE "None"

\* A recover_funds that goes on to the refund when the payment was refunded.
search_verdict_refunded_passes(found) ==
    IF found = "Spent" THEN "Maker payment was already spent" ELSE "ok"

\* MakerSwap::recover_funds: the match on the Ok of search_for_swap_tx_spend_my
search_verdict(found) ==
    CASE found = "Spent" -> "Maker payment was already spent"
      [] found = "Refunded" -> "Maker payment was already refunded"
      [] found = "None" -> "ok"

\* MakerSwap::recover_funds of the loaded swap sw at time t with the chain
\* ch: the results it can give, each with the coin operations it called.
recover_funds(sw, ch, t) ==
    IF recover_precondition(sw) # "ok"
    THEN { Failed(recover_precondition(sw), {}) }
    ELSE
    LET probe == IF needs_payment_probe(sw) THEN {"check_if_my_payment_sent"} ELSE {}
        search == probe \cup {"search_for_swap_tx_spend_my"}
        found == IF needs_payment_probe(sw)
                 THEN check_if_my_payment_sent(ch) = "Some"
                 ELSE TRUE
        verdict == search_verdict(search_for_swap_tx_spend_my(ch))
    IN  (IF needs_payment_probe(sw)
         THEN { Failed("check_if_my_payment_sent", probe) } ELSE {})
        \cup
        (IF ~found
         THEN { Failed("Maker payment transaction was not found", probe) }
         ELSE { Failed("Error when trying to find maker payment spend", search) }
              \cup
              (IF verdict # "ok"
               THEN { Failed(verdict, search) }
               ELSE IF recover_too_early(sw.data, t)
               THEN { Failed("Too early to refund", search) }
               ELSE { Failed("send_maker_refunds_payment",
                             search \cup {"send_maker_refunds_payment"}) }
                    \cup
                    (IF Refundable(ch)
                     THEN { Recovered(sw, search \cup {"send_maker_refunds_payment"}) }
                     ELSE {})))

\* A recover_funds_of_swap that records the refund it made in the saved swap.
saved_after_recorded_recover(saved, r) ==
    IF r.ok
    THEN SubSeq(saved, 1, Len(saved) - 1)
         \o << EvTx("MakerPaymentRefunded", "maker_payment_refund"), Last(saved) >>
    ELSE saved

\* recover_funds_of_swap: the file is read with slurp and never written
saved_after_recover_funds(saved, r) == saved

\* recover_funds_of_swap and SavedSwap::recover_funds
RecoverFunds(s) ==
    /\ phase = "up"
    /\ n_recover < MaxRecover
    /\ n_recover' = n_recover + 1
    /\ IF torn[s] = "partial"
       THEN /\ recover_result' = [ recover_result EXCEPT ![s] =
                                     Failed("json::from_slice", {}) ]
            /\ UNCHANGED << chain, refund_calls, running_swaps, disk >>
       ELSE IF read_saved(s) = << >>
       THEN /\ recover_result' = [ recover_result EXCEPT ![s] =
                                     Failed("swap data is not found", {}) ]
            /\ UNCHANGED << chain, refund_calls, running_swaps, disk >>
       ELSE IF ~has_coin_tickers(disk[s])
       THEN /\ recover_result' = [ recover_result EXCEPT ![s] =
                                     Failed("First swap event must be Started", {}) ]
            /\ UNCHANGED << chain, refund_calls, running_swaps, disk >>
       ELSE IF ~({ disk[s][1].data.maker_coin, disk[s][1].data.taker_coin } \subseteq enabled)
       THEN /\ recover_result' = [ recover_result EXCEPT ![s] =
                                     Failed("Coin is not activated", {}) ]
            /\ UNCHANGED << chain, refund_calls, running_swaps, disk >>
       ELSE LET loaded == load_from_saved(disk[s], now)
            IN  \E r \in recover_funds(loaded.swap, chain[s], now) :
                   /\ running_swaps' = registry_after_load_from_saved(running_swaps, s)
                   /\ recover_result' = [ recover_result EXCEPT ![s] = r ]
                   /\ disk' = [ disk EXCEPT ![s] = saved_after_recover_funds(@, r) ]
                   /\ refund_calls' =
                         IF "send_maker_refunds_payment" \in r.calls
                         THEN refund_calls \cup
                              { RefundCall(s, "recover", loaded.swap.data.maker_payment_lock) }
                         ELSE refund_calls
                   /\ chain' = IF r.ok
                               THEN [ chain EXCEPT ![s].maker_payment_refunded = TRUE ]
                               ELSE chain
    /\ UNCHANGED << now, phase, crashes, enabled, coins_needed, pc,
                    command, next, pending, swap, last_run, runs, sent, applied,
                    torn, save_failed, stats, broadcasts, broadcast_failed, n_status,
                    status, taker_data, negotiated_sent, recv_call, importing,
                    details_failing, fee_call, peer_messages, fee_checks >>

\* An is_recoverable that looks at the last event only.
is_recoverable_when_finished(saved) == is_finished(saved)

\* MakerSavedSwap::is_recoverable
is_recoverable(saved) ==
    IF ~is_finished(saved)
    THEN FALSE
    ELSE ~\E i \in DOMAIN saved :
             saved[i].type \in { "StartFailed", "NegotiateFailed", "TakerFeeValidateFailed",
                                 "TakerPaymentSpent", "MakerPaymentRefunded" }

\* my_swap_status and MySwapStatusResponse::from: the saved swap and its
\* recoverable flag, 404 when the file is missing or empty
MySwapStatus(s) ==
    /\ phase = "up"
    /\ n_status < MaxStatus
    /\ n_status' = n_status + 1
    /\ status' = IF torn[s] = "partial"
                 THEN [ uuid |-> s, code |-> 500, events |-> << >>, recoverable |-> FALSE ]
                 ELSE IF read_saved(s) = << >>
                 THEN [ uuid |-> s, code |-> 404, events |-> << >>, recoverable |-> FALSE ]
                 ELSE [ uuid |-> s, code |-> 200, events |-> read_saved(s),
                        recoverable |-> is_recoverable(read_saved(s)) ]
    /\ UNCHANGED << now, phase, crashes, enabled, coins_needed, running_swaps, pc,
                    command, next, pending, swap, disk, chain, last_run, runs,
                    refund_calls, n_recover, recover_result, sent, applied, torn,
                    save_failed, stats, broadcasts, broadcast_failed, taker_data,
                    negotiated_sent, recv_call, importing, details_failing, fee_call,
                    peer_messages, fee_checks >>

(***************************************************************************)
(* The rest of the environment.                                            *)
(***************************************************************************)
\* get_locked_amount, called when an order is placed: the dangling weak
\* references are dropped.
GetLockedAmount ==
    /\ phase = "up"
    /\ running_swaps # Pruned(running_swaps)
    /\ running_swaps' = Pruned(running_swaps)
    /\ UNCHANGED << now, phase, crashes, enabled, coins_needed, pc, command, next,
                    pending, swap, disk, chain, last_run, runs, refund_calls, n_recover,
                    recover_result, sent, applied, torn, save_failed, stats, broadcasts,
                    broadcast_failed, n_status, status, taker_data, negotiated_sent,
                    recv_call, importing, details_failing, fee_call, peer_messages,
                    fee_checks >>

\* The taker claims the maker HTLC with the secret the maker's claim of the
\* taker HTLC has published.
TakerSpendsMakerPayment(s) ==
    /\ chain[s].taker_payment_spent
    /\ Refundable(chain[s])
    /\ chain' = [ chain EXCEPT ![s].maker_payment_spent = TRUE ]
    /\ UNCHANGED << now, phase, crashes, enabled, coins_needed, running_swaps, pc,
                    command, next, pending, swap, disk, last_run, runs, refund_calls,
                    n_recover, recover_result, sent, applied, torn, save_failed, stats,
                    broadcasts, broadcast_failed, n_status, status, taker_data,
                    negotiated_sent, recv_call, importing, details_failing, fee_call,
                    peer_messages, fee_checks >>

\* Time passes.
Tick ==
    /\ \A s \in Swaps : ~(pc[s] = "cmd" /\ command[s] = "Start")
    /\ \E t \in TimePoints : t > now /\ now' = t
    /\ UNCHANGED << phase, crashes, enabled, coins_needed, running_swaps, pc, command,
                    next, pending, swap, disk, chain, last_run, runs, refund_calls,
                    n_recover, recover_result, sent, applied, torn, save_failed, stats,
                    broadcasts, broadcast_failed, n_status, status, taker_data,
                    negotiated_sent, recv_call, importing, details_failing, fee_call,
                    peer_messages, fee_checks >>

(***************************************************************************)
(* import_swaps.                                                           *)
(***************************************************************************)
\* The maker record a caller of import_swaps supplies under the uuid of a
\* swap: the log of a swap that failed at its start.
ImportedRecord == << EvErr("StartFailed", "imported"), Ev("Finished") >>

\* SavedSwap::save_to_db: `path.exists()`
path_exists(s) == disk[s] # << >> \/ torn[s] # "no"

\* import_swaps, SavedSwap::save_to_db up to its exists check: the file is
\* not there, the call goes on to its write.  (When the file exists the swap
\* is skipped and nothing changes.)
ImportChecks(s) ==
    /\ phase = "up"
    /\ s \notin importing
    /\ ~path_exists(s)
    /\ importing' = importing \cup {s}
    /\ UNCHANGED disk
    /\ UNCHANGED << now, phase, crashes, enabled, coins_needed, running_swaps, pc,
                    command, next, pending, swap, chain, last_run, runs, refund_calls,
                    n_recover, recover_result, sent, applied, torn, save_failed, stats,
                    broadcasts, broadcast_failed, n_status, status, taker_data,
                    negotiated_sent, recv_call, details_failing, fee_call, peer_messages,
                    fee_checks >>

\* SavedSwap::save_to_db: `std::fs::write(path, &content)`, whatever the file
\* holds by now.
ImportWrites(s) ==
    /\ phase = "up"
    /\ s \in importing
    /\ importing' = importing \ {s}
    /\ disk' = [ disk EXCEPT ![s] = ImportedRecord ]
    /\ UNCHANGED << now, phase, crashes, enabled, coins_needed, running_swaps, pc,
                    command, next, pending, swap, chain, last_run, runs, refund_calls,
                    n_recover, recover_result, sent, applied, torn, save_failed, stats,
                    broadcasts, broadcast_failed, n_status, status, taker_data,
                    negotiated_sent, recv_call, details_failing, fee_call, peer_messages,
                    fee_checks >>

Next ==
    \/ \E s \in Swaps :
          \/ RunMakerSwap(s) \/ SaveEvent(s) \/ SaveFails(s) \/ ApplyEvent(s)
          \/ BroadcastStatus(s)
          \/ Start(s) \/ Negotiate(s) \/ WaitTakerFee(s) \/ MakerPayment(s)
          \/ WaitForTakerPayment(s) \/ ValidateTakerPayment(s) \/ SpendTakerPayment(s)
          \/ RefundMakerPayment(s) \/ Finish(s)
          \/ KickStart(s) \/ RecoverFunds(s) \/ MySwapStatus(s)
          \/ TakerSpendsMakerPayment(s)
    \/ \E c \in Coins : EnableCoin(c)
    \/ Crash \/ SwapKickStarts \/ GetLockedAmount \/ Tick

Spec == Init /\ [][Next]_vars

\* One swap in a process that stays up and writes without failure, and the
\* import_swaps calls made meanwhile.
ImportInit == Init /\ n_status = 0

ImportNext ==
    \/ \E s \in Swaps :
          \/ RunMakerSwap(s) \/ SaveEvent(s) \/ ApplyEvent(s) \/ BroadcastStatus(s)
          \/ Start(s) \/ Negotiate(s) \/ WaitTakerFee(s) \/ MakerPayment(s)
          \/ WaitForTakerPayment(s) \/ ValidateTakerPayment(s) \/ SpendTakerPayment(s)
          \/ RefundMakerPayment(s) \/ Finish(s)
          \/ TakerSpendsMakerPayment(s)
          \/ ImportChecks(s) \/ ImportWrites(s)
    \/ \E c \in Coins : EnableCoin(c)
    \/ Tick

ImportSpec == ImportInit /\ [][ImportNext]_vars

\* One swap in a process that stays up and writes without failure, with a
\* taker that may stop answering and coins whose tx_details_by_hash may fail
\* for as long as it likes.  Time advances and the thread of the swap is
\* scheduled whenever it can take a step.
LiveInit == Init /\ n_status = 0

Driver(s) ==
    \/ SaveEvent(s) \/ ApplyEvent(s) \/ BroadcastStatus(s)
    \/ Start(s) \/ Negotiate(s) \/ WaitTakerFee(s) \/ MakerPayment(s)
    \/ WaitForTakerPayment(s) \/ ValidateTakerPayment(s) \/ SpendTakerPayment(s)
    \/ RefundMakerPayment(s) \/ Finish(s) \/ TxDetails(s)

LiveNext ==
    \/ \E s \in Swaps : RunMakerSwap(s) \/ Driver(s) \/ TakerSpendsMakerPayment(s)
    \/ \E c \in Coins : EnableCoin(c)
    \/ Tick \/ DetailsFail \/ DetailsAnswer

LiveSpec ==
    /\ LiveInit
    /\ [][LiveNext]_vars
    /\ \A s \in Swaps : WF_vars(Driver(s))
    /\ WF_vars(Tick)

(***************************************************************************)
(* The dex fee.  Amounts are counted in units of 10^-8 coin.  A BigDecimal *)
(* is the ratio num / den of two integers; a quotient that `/` had to cut  *)
(* after DivPrecision digits carries the side of the exact ratio it lies   *)
(* on, at a distance below 10^-97 of the ratio.                            *)
(***************************************************************************)
\* The digits BigDecimal's `/` computes before it rounds.
DivPrecision == 100

FeeTickers == { "KMD", "BTC", "ETH" }

\* Trade amounts: one unit, 0.001 coin, the amounts around the two points
\* where the share of the trade meets the minimum, and whole coins.
FeeAmounts ==
    { 1, 100000, 7769999, 7770000, 7770001, 8633333, 8633334,
      10000000, 77700000, 100000000, 200000000, 238000000 }

RECURSIVE count_decimal_digits(_)
count_decimal_digits(n) == IF n < 10 THEN 1 ELSE 1 + count_decimal_digits(n \div 10)

\* `/` first shifts the numerator up until it reaches the denominator.
RECURSIVE div_shift(_, _)
div_shift(num, den) == IF num < den THEN div_shift(num * 10, den) ELSE num

\* The remainder of the long division after k more digits of the quotient.
RECURSIVE div_remainder(_, _, _)
div_remainder(r, den, k) ==
    IF k = 0 \/ r = 0 THEN r ELSE div_remainder((r * 10) % den, den, k - 1)

\* The side of num / den the quotient of `/` lies on: the division stops
\* when the remainder is zero or after DivPrecision digits, and then rounds
\* by the next digit.
div_cut(num, den) ==
    LET n == div_shift(num, den)
        r == div_remainder(n % den, den, DivPrecision - count_decimal_digits(n \div den))
    IN  IF r = 0 THEN "exact"
        ELSE IF (r * 10) \div den >= 5 THEN "above" ELSE "below"

BigDecimalDiv(num, den) == [ num |-> num, den |-> den, cut |-> div_cut(num, den) ]

\* a < b for two BigDecimals of which only a may be a cut quotient.
BigDecimalLess(a, b) ==
    \/ a.num * b.den < b.num * a.den
    \/ a.num * b.den = b.num * a.den /\ a.cut = "below"

dex_fee_rate_without_discount(base, rel) == BigDecimalDiv(1, 777)

dex_fee_rate(base, rel) ==
    IF base = "KMD" \/ rel = "KMD"
    THEN BigDecimalDiv(9, 7770)
    ELSE BigDecimalDiv(1, 777)

dex_fee_amount(base, rel, trade_amount) ==
    LET rate == dex_fee_rate(base, rel)
        min_fee == [ num |-> 10000, den |-> 1, cut |-> "exact" ]
        fee_amount == [ num |-> trade_amount * rate.num, den |-> rate.den,
                        cut |-> rate.cut ]
    IN  IF BigDecimalLess(fee_amount, min_fee) THEN min_fee ELSE fee_amount

\* One call of dex_fee_amount.
DexFeeAmount(base, rel, trade_amount) ==
    /\ fee_call' = [ base |-> base, rel |-> rel, trade_amount |-> trade_amount,
                     fee |-> dex_fee_amount(base, rel, trade_amount) ]
    /\ UNCHANGED << now, phase, crashes, enabled, coins_needed, running_swaps, pc,
                    command, next, pending, swap, disk, chain, last_run, runs,
                    refund_calls, n_recover, recover_result, sent, applied, torn,
                    save_failed, stats, broadcasts, broadcast_failed, n_status,
                    status, taker_data, negotiated_sent, recv_call, importing,
                    details_failing, peer_messages, fee_checks >>

\* dex_fee_amount alone, called with every pair of tickers and every amount.
FeeInit == Init /\ n_status = 0

FeeNext ==
    \E base \in FeeTickers, rel \in FeeTickers, trade_amount \in FeeAmounts :
        DexFeeAmount(base, rel, trade_amount)

FeeSpec == FeeInit /\ [][FeeNext]_vars

(***************************************************************************)
(* The two loops of wait_taker_fee, validate_fee and tx_details_by_hash,   *)
(* against a coin that answers each call with Ok (TRUE) or Err (FALSE).    *)
(***************************************************************************)
\* The answers the coin has ready for each of the two calls.
MaxAnswers == 5

RECURSIVE Answers(_)
Answers(n) ==
    IF n = 0 THEN { << >> }
    ELSE { << a >> \o rest : a \in BOOLEAN, rest \in Answers(n - 1) }

\* A loop that gives up one failure later.
gives_up_one_later(attempts) == attempts > 3

\* `if attempts >= 3 { return .. }`
gives_up(attempts) == attempts >= 3

\* loop { match call() { Ok(_) => break, Err(err) => if attempts >= 3
\* { return .. } else { attempts += 1; sleep } } }: whether the loop broke
\* out with Ok, and the calls it made.
RECURSIVE retry_loop(_, _, _)
retry_loop(answers, attempts, calls) ==
    IF Head(answers)
    THEN [ ok |-> TRUE, calls |-> calls + 1 ]
    ELSE IF gives_up(attempts)
         THEN [ ok |-> FALSE, calls |-> calls + 1 ]
         ELSE retry_loop(Tail(answers), attempts + 1, calls + 1)

\* wait_taker_fee from `let mut attempts = 0` on: the validate_fee loop, then
\* the tx_details_by_hash loop with a counter of its own.
wait_taker_fee_loops(validate_answers, details_answers) ==
    LET validated == retry_loop(validate_answers, 0, 0)
        details   == retry_loop(details_answers, 0, 0)
    IN  IF ~validated.ok
        THEN [ validate_answers |-> validate_answers, details_answers |-> details_answers,
               validate_fee_calls |-> validated.calls, tx_details_calls |-> 0,
               event |-> "TakerFeeValidateFailed", next |-> "Finish" ]
        ELSE IF ~details.ok
        THEN [ validate_answers |-> validate_answers, details_answers |-> details_answers,
               validate_fee_calls |-> validated.calls, tx_details_calls |-> details.calls,
               event |-> "TakerFeeValidateFailed", next |-> "Finish" ]
        ELSE [ validate_answers |-> validate_answers, details_answers |-> details_answers,
               validate_fee_calls |-> validated.calls, tx_details_calls |-> details.calls,
               event |-> "TakerFeeValidated", next |-> "SendPayment" ]

\* The one run of the two loops that a swap makes.
WaitTakerFeeLoops(validate_answers, details_answers) ==
    /\ fee_checks = NoFeeChecks
    /\ fee_checks' = wait_taker_fee_loops(validate_answers, details_answers)
    /\ UNCHANGED << now, phase, crashes, enabled, coins_needed, running_swaps, pc,
                    command, next, pending, swap, disk, chain, last_run, runs,
                    refund_calls, n_recover, recover_result, sent, applied, torn,
                    save_failed, stats, broadcasts, broadcast_failed, n_status,
                    status, taker_data, negotiated_sent, recv_call, importing,
                    details_failing, fee_call, peer_messages >>

\* The two loops alone, against every run of answers of the coin.
RetryInit == Init /\ n_status = 0

RetryNext ==
    \E validate_answers \in Answers(MaxAnswers), details_answers \in Answers(MaxAnswers) :
        WaitTakerFeeLoops(validate_answers, details_answers)

RetrySpec == RetryInit /\ [][RetryNext]_vars

(***************************************************************************)
(* Two swaps on the same maker coin in a process that is killed once and   *)
(* started again: a swap the matcher hands over after the restart runs     *)
(* side by side with the thread swap_kick_starts spawned for the other.    *)
(* The swaps are followed up to their maker payment, with a taker that     *)
(* sends no payment of its own.                                            *)
(***************************************************************************)
RestartInit ==
    /\ pc = [ s \in Swaps |-> "new" ]
    /\ crashes = MaxCrashes - 1
    /\ n_recover = 0
    /\ n_status = 0
    /\ InitRest

RestartNext ==
    \/ \E s \in Swaps :
          \/ RunMakerSwap(s) \/ KickStart(s)
          \/ SaveEvent(s) \/ ApplyEvent(s) \/ BroadcastStatus(s)
          \/ Start(s) \/ Negotiate(s) \/ WaitTakerFee(s) \/ MakerPayment(s)
          \/ Finish(s)
    \/ \E c \in Coins : EnableCoin(c)
    \/ Crash \/ SwapKickStarts \/ GetLockedAmount

RestartSpec == RestartInit /\ [][RestartNext]_vars

(***************************************************************************)
(* One swap in a process that stays up, and two calls of recover_funds.    *)
(***************************************************************************)
RecoverInit ==
    /\ pc = [ s \in Swaps |-> IF s = "a" THEN "new" ELSE "absent" ]
    /\ crashes = MaxCrashes
    /\ n_recover = MaxRecover - 2
    /\ n_status = 0
    /\ InitRest

RecoverNext ==
    \/ \E s \in Swaps :
          \/ RunMakerSwap(s) \/ SaveEvent(s) \/ ApplyEvent(s) \/ BroadcastStatus(s)
          \/ Start(s) \/ Negotiate(s) \/ WaitTakerFee(s) \/ MakerPayment(s)
          \/ WaitForTakerPayment(s) \/ ValidateTakerPayment(s) \/ SpendTakerPayment(s)
          \/ RefundMakerPayment(s) \/ Finish(s)
          \/ RecoverFunds(s) \/ TakerSpendsMakerPayment(s)
    \/ \E c \in Coins : EnableCoin(c)
    \/ GetLockedAmount \/ Tick

RecoverSpec == RecoverInit /\ [][RecoverNext]_vars

(***************************************************************************)
(* The maker state table of the specification (section 4.5): the state, the *)
(* events one transition out of it appends, and the next state.             *)
(***************************************************************************)
MakerStateTable ==
    { [ state |-> "Start", events |-> << "Started" >>, next |-> "Negotiate" ],
      [ state |-> "Start", events |-> << "StartFailed" >>, next |-> "Finish" ],
      [ state |-> "Negotiate", events |-> << "Negotiated" >>, next |-> "WaitForTakerFee" ],
      [ state |-> "Negotiate", events |-> << "NegotiateFailed" >>, next |-> "Finish" ],
      [ state |-> "WaitForTakerFee", events |-> << "TakerFeeValidated" >>,
        next |-> "SendPayment" ],
      [ state |-> "WaitForTakerFee", events |-> << "TakerFeeValidateFailed" >>,
        next |-> "Finish" ],
      [ state |-> "SendPayment", events |-> << "MakerPaymentSent" >>,
        next |-> "WaitForTakerPayment" ],
      [ state |-> "SendPayment", events |-> << "MakerPaymentTransactionFailed" >>,
        next |-> "Finish" ],
      [ state |-> "WaitForTakerPayment",
        events |-> << "TakerPaymentReceived", "TakerPaymentWaitConfirmStarted" >>,
        next |-> "ValidateTakerPayment" ],
      [ state |-> "WaitForTakerPayment", events |-> << "MakerPaymentDataSendFailed" >>,
        next |-> "RefundMakerPayment" ],
      [ state |-> "WaitForTakerPayment", events |-> << "TakerPaymentValidateFailed" >>,
        next |-> "RefundMakerPayment" ],
      [ state |-> "ValidateTakerPayment",
        events |-> << "TakerPaymentValidatedAndConfirmed" >>,
        next |-> "SpendTakerPayment" ],
      [ state |-> "ValidateTakerPayment", events |-> << "TakerPaymentValidateFailed" >>,
        next |-> "RefundMakerPayment" ],
      [ state |-> "SpendTakerPayment", events |-> << "TakerPaymentSpent" >>,
        next |-> "Finish" ],
      [ state |-> "SpendTakerPayment", events |-> << "TakerPaymentSpendFailed" >>,
        next |-> "RefundMakerPayment" ],
      [ state |-> "RefundMakerPayment", events |-> << "MakerPaymentRefunded" >>,
        next |-> "Finish" ],
      [ state |-> "RefundMakerPayment", events |-> << "MakerPaymentRefundFailed" >>,
        next |-> "Finish" ],
      [ state |-> "Finish", events |-> << "Finished" >>, next |-> "None" ] }

IsPrefix(p, q) == Len(p) <= Len(q) /\ p = SubSeq(q, 1, Len(p))

\* types is a prefix of the events of some path of the table that starts in
\* state.
RECURSIVE IsPrefixOfTablePath(_, _)
IsPrefixOfTablePath(types, state) ==
    \/ types = << >>
    \/ \E row \in MakerStateTable :
          /\ row.state = state
          /\ \/ IsPrefix(types, row.events)
             \/ /\ IsPrefix(row.events, types)
                /\ IsPrefixOfTablePath(
                       SubSeq(types, Len(row.events) + 1, Len(types)), row.next)

\* The next state the table gives after an event.
TableNext(type) ==
    LET rows == { row \in MakerStateTable :
                    \E i \in DOMAIN row.events : row.events[i] = type }
    IN  (CHOOSE row \in rows : TRUE).next

(***************************************************************************)
(* Properties.                                                             *)
(***************************************************************************)
\* C1: no swap that has run to its Finished event leaves one payment spent
\* and the other refunded: the taker payment claimed by the maker and the
\* maker payment refunded to the maker.
C1_NeverOneSpentOtherRefunded ==
    \A s \in Swaps :
       is_finished(disk[s]) =>
          ~(chain[s].taker_payment_spent /\ chain[s].maker_payment_refunded)

\* C2: at every moment the event types of a swap's log are a prefix of some
\* path through the maker state table.
C2_LogIsPrefixOfTablePath ==
    \A s \in Swaps : IsPrefixOfTablePath(Types(disk[s]), "Start")

\* C3: a log that ends with TakerPaymentSpent, Finished has exactly the
\* event types of success_events, also when the swap was resumed by
\* kick-start.
C3_SuccessLogIsSuccessEvents ==
    \A s \in Swaps :
       ( /\ Len(disk[s]) >= 2
         /\ disk[s][Len(disk[s]) - 1].type = "TakerPaymentSpent"
         /\ disk[s][Len(disk[s])].type = "Finished" )
       => Types(disk[s]) = success_events

\* C4: send_maker_refunds_payment is never called before
\* maker_payment_lock + 3700, by refund_maker_payment or by recover_funds,
\* and recover_funds gives Ok, or refunds, only from that instant on.
C4_NoRefundBeforeGrace ==
    /\ \A c \in refund_calls : c.at >= c.lock + RefundGrace
    /\ \A s \in Swaps :
          (recover_result[s].ok \/ chain[s].maker_payment_refunded)
          => now >= disk[s][1].data.maker_payment_lock + RefundGrace

\* recover_funds refunds at exactly maker_payment_lock + 3700, after the
\* driver's own refund at that instant had failed.
C4_RefundAtGrace ==
    \E s \in Swaps :
       /\ recover_result[s].ok
       /\ chain[s].maker_payment_refunded
       /\ \E c \in refund_calls :
             c.uuid = s /\ c.by = "recover" /\ c.at = c.lock + RefundGrace
       /\ \E c \in refund_calls :
             c.uuid = s /\ c.by = "driver" /\ c.at = c.lock + RefundGrace

\* C5: however often SendPayment runs for a swap, at most one maker HTLC is
\* broadcast for it.
C5_AtMostOneMakerPayment ==
    \A s \in Swaps : chain[s].maker_payment <= 1

\* SendPayment ran twice (a crash after the broadcast, before
\* MakerPaymentSent was saved), the second run found the payment.
C5_SendPaymentRanTwice ==
    \E s \in Swaps :
       /\ runs[s] >= 2
       /\ chain[s].maker_payment = 1
       /\ Has(disk[s], "MakerPaymentSent")


\* The event of type t is in the log and was applied to the swap in memory.
Applied(s, t) ==
    Has(disk[s], t) /\ ~(pc[s] = "apply" /\ Head(pending[s]).type = t)

\* C6 (as stated): the contribution of a live swap to the locked amount is 0
\* if and only if it has recorded MakerPaymentSent or Finished.
C6_ZeroIffPaymentSentOrFinished ==
    \A s \in Swaps :
       Alive(s) =>
          (locked_amount(swap[s], MakerCoinOf(s)).amount = 0
             <=> (Applied(s, "MakerPaymentSent") \/ Applied(s, "Finished")))

\* C6: the contribution of a live swap to the locked amount is 0 if and only
\* if it has recorded MakerPaymentSent, Finished or not; otherwise it is
\* maker_amount on maker_coin.
C6_ZeroIffPaymentSent ==
    \A s \in Swaps :
       Alive(s) =>
          LET locked == locked_amount(swap[s], MakerCoinOf(s))
          IN  /\ locked.coin = MakerCoinOf(s)
              /\ locked.amount = 0 <=> Applied(s, "MakerPaymentSent")
              /\ locked.amount # 0 => locked.amount = MakerAmountOf(s)

\* A live swap that is finished without a maker payment still locks its
\* amount.
C6_FinishedStillLocks ==
    \E s \in Swaps :
       /\ Alive(s)
       /\ Applied(s, "Finished")
       /\ ~Has(disk[s], "MakerPaymentSent")
       /\ get_locked_amount(MakerCoinOf(s)) >= MakerAmountOf(s)

\* The sum of the locked amounts of the live swaps of S on coin.
RECURSIVE LockedByLive(_, _)
LockedByLive(S, coin) ==
    IF S = {} THEN 0
    ELSE LET s == CHOOSE x \in S : TRUE
         IN  (IF Alive(s) /\ MakerCoinOf(s) = coin /\ swap[s].maker_payment = NoTx
              THEN swap[s].maker_amount ELSE 0)
             + LockedByLive(S \ {s}, coin)

\* C7: when maker_amount > balance - (the locked amounts of the other live
\* swaps on maker_coin), Start gives StartFailed and Finish and no Started;
\* the swap's own locked amount does not count: Start reports "larger than
\* available" only in that case.
C7_StartFailsOverAvailable ==
    [][ \A s \in Swaps :
           (Handles(s, "Start") /\ pc'[s] = "save") =>
              LET over == swap[s].maker_amount >
                            my_balance(MakerCoinOf(s))
                              - LockedByLive(Swaps \ {s}, MakerCoinOf(s))
              IN  /\ over => ( /\ next'[s] = "Finish"
                               /\ Types(pending'[s]) = << "StartFailed" >> )
                  /\ (pending'[s][1].err = "maker amount is larger than available")
                        => over ]_vars

\* Swap b fits the balance alone but not beside the amount swap a locks:
\* its Start gave StartFailed.
C7_SecondSwapRefused ==
    /\ pc["b"] = "save"
    /\ pending["b"] = << EvErr("StartFailed", "maker amount is larger than available") >>
    /\ next["b"] = "Finish"
    /\ Alive("a")
    /\ swap["a"].maker_payment = NoTx
    /\ MakerAmountOf("b") <= my_balance(MakerCoinOf("b"))

\* C8: recover_funds_of_swap, which loads the swap with load_from_saved,
\* leaves the registry and get_locked_amount of every coin as they were.
C8_LoadDoesNotRegister ==
    [][ n_recover' # n_recover =>
           /\ running_swaps' = running_swaps
           /\ \A c \in Coins : (get_locked_amount(c))' = get_locked_amount(c) ]_vars

\* recover_funds has loaded a swap whose maker payment was never sent, and
\* nothing is locked.
C8_LoadedAndNothingLocked ==
    \E s \in Swaps :
       /\ recover_result[s].err = "Maker payment transaction was not found"
       /\ ~Has(disk[s], "MakerPaymentSent")
       /\ pc[s] = "done"
       /\ get_locked_amount(MakerCoinOf(s)) = 0

C10_KickStartsReturnsUnfinishedTickers ==
    [][ /\ (phase = "down" /\ phase' = "up") =>
              /\ coins_needed' =
                    UNION { { MakerCoinOf(s), TakerCoinOf(s) } :
                            s \in { x \in Swaps : disk[x] # << >>
                                                   /\ ~is_finished(disk[x]) } }
              /\ \A s \in Swaps : is_finished(disk[s]) => pc'[s] # "kick"
        /\ \A s \in Swaps :
              (pc[s] = "kick" /\ pc'[s] # "kick" /\ phase' = "up") =>
                 { MakerCoinOf(s), TakerCoinOf(s) } \subseteq enabled ]_vars

\* C11: every saved swap whose last event is not Finished is resumable: a
\* restart kick-starts it (its thread is spawned and waits for its coins),
\* whatever log the crash left, a log of StartFailed alone included.
C11_UnfinishedIsKickStarted ==
    [][ (phase = "down" /\ phase' = "up") =>
           \A s \in Swaps :
              (disk[s] # << >> /\ ~is_finished(disk[s])) => pc'[s] = "kick" ]_vars

\* C12: a peer message that depends on an event is sent only after that event
\* is on disk: "negotiated" only after Negotiated, "maker-payment" only after
\* MakerPaymentSent.
C12_SendsFollowPersistedEvents ==
    \A s \in Swaps :
       /\ "negotiated" \in sent[s] => Has(disk[s], "Negotiated")
       /\ "maker-payment" \in sent[s] => Has(disk[s], "MakerPaymentSent")

\* Both messages left for the taker of one swap.
C12_BothMessagesSent ==
    \E s \in Swaps : {"negotiated", "maker-payment"} \subseteq sent[s]

\* C13 (as stated): at every moment of a running swap the events on disk are a
\* prefix of the events applied to the swap in memory.
C13_DiskIsPrefixOfApplied ==
    \A s \in Swaps : Alive(s) => IsPrefix(disk[s], applied[s])

\* C13 (amended): at every moment of a running swap the events applied to the
\* swap in memory are a prefix of the events on disk, and the disk is at most
\* one event ahead: an event is saved first and applied next.
C13_AppliedIsPrefixOfDisk ==
    \A s \in Swaps :
       Alive(s) => /\ IsPrefix(applied[s], disk[s])
                   /\ Len(disk[s]) <= Len(applied[s]) + 1

\* A running swap between the save of an event and its apply_event: the disk
\* is one event ahead of the memory.
C13_SavedNotYetApplied ==
    \E s \in Swaps : /\ pc[s] = "apply"
                     /\ Len(disk[s]) = Len(applied[s]) + 1
                     /\ Len(applied[s]) > 0

C15_ReadersSeeWholeRecords ==
    \A s \in Swaps : read_saved(s) = disk[s]

\* The records of swap s that left the SWAPS/MY file: the stats file and
\* every swapstatus broadcast.
C16_Published(s) ==
    { broadcasts[s][i] : i \in DOMAIN broadcasts[s] }
       \cup (IF stats[s] = << >> THEN {} ELSE { stats[s] })

Loadable(s) == read_saved(s) # << >> /\ has_coin_tickers(read_saved(s))

\* The results MakerSwap::recover_funds can give for the saved swap s now.
RecoverResults(s) ==
    recover_funds(load_from_saved(read_saved(s), now).swap, chain[s], now)

\* C17: recover_funds returns an error and calls no coin operation when the
\* saved swap has no Finished event, when it contains MakerPaymentRefunded,
\* or when it contains TakerPaymentSpent.
C17_BarredRecoverCallsNothing ==
    \A s \in Swaps :
       /\ (/\ Loadable(s)
           /\ \/ ~is_finished(disk[s])
              \/ Has(disk[s], "MakerPaymentRefunded")
              \/ Has(disk[s], "TakerPaymentSpent")) =>
             \A r \in RecoverResults(s) :
                ~r.ok /\ r.calls = {} /\ r.action = "" /\ r.err # ""
       /\ recover_result[s].err \in
             { "Swap must be finished before recover funds attempt",
               "Maker payment is refunded, swap is not recoverable",
               "Taker payment is spent, swap is not recoverable" } =>
             ~recover_result[s].ok /\ recover_result[s].calls = {}

\* recover_funds was called for a finished swap whose log has
\* TakerPaymentSpent: it returned the error and called nothing.
C17_RefusedAfterTakerPaymentSpent ==
    \E s \in Swaps :
       /\ Has(disk[s], "TakerPaymentSpent")
       /\ is_finished(disk[s])
       /\ recover_result[s].err = "Taker payment is spent, swap is not recoverable"
       /\ recover_result[s].calls = {}

\* C18: for a finished swap with neither MakerPaymentRefunded nor
\* TakerPaymentSpent, recover_funds calls check_if_my_payment_sent exactly
\* when the log has no MakerPaymentSent; when the probe finds no payment every
\* result is an error and neither the search nor the refund is called; when it
\* finds one, the lock plus 3700 s has passed and the payment is unspent, the
\* result is the refund of the maker payment on maker_coin unless a coin call
\* fails.
C18_ProbeOnlyWithoutPaymentEvent ==
    \A s \in Swaps :
       (/\ Loadable(s)
        /\ is_finished(disk[s])
        /\ ~Has(disk[s], "MakerPaymentRefunded")
        /\ ~Has(disk[s], "TakerPaymentSpent")) =>
          LET has == Has(disk[s], "MakerPaymentSent")
              lock == disk[s][1].data.maker_payment_lock
              R == RecoverResults(s)
          IN  /\ \A r \in R : ("check_if_my_payment_sent" \in r.calls) = ~has
              /\ (~has /\ chain[s].maker_payment = 0) =>
                    \A r \in R : /\ ~r.ok
                                 /\ r.calls = {"check_if_my_payment_sent"}
                                 /\ r.err \in { "check_if_my_payment_sent",
                                                "Maker payment transaction was not found" }
              /\ (/\ ~has
                  /\ chain[s].maker_payment > 0
                  /\ now >= lock + 3700
                  /\ ~chain[s].maker_payment_spent
                  /\ ~chain[s].maker_payment_refunded) =>
                    /\ \E r \in R : /\ r.ok
                                    /\ r.action = "RefundedMyPayment"
                                    /\ r.coin = MakerCoinOf(s)
                                    /\ "send_maker_refunds_payment" \in r.calls
                    /\ \A r \in R :
                          ~r.ok => r.err \in { "check_if_my_payment_sent",
                                               "Error when trying to find maker payment spend",
                                               "send_maker_refunds_payment" }

\* recover_funds refunded a maker payment that the log does not have: it was
\* found by check_if_my_payment_sent.
C18_RefundedProbedPayment ==
    \E s \in Swaps :
       /\ ~Has(disk[s], "MakerPaymentSent")
       /\ recover_result[s].ok
       /\ recover_result[s].action = "RefundedMyPayment"
       /\ "check_if_my_payment_sent" \in recover_result[s].calls
       /\ chain[s].maker_payment_refunded

\* C19: recover_funds never calls send_maker_refunds_payment when
\* search_for_swap_tx_spend_my reports the maker payment as Spent or as
\* Refunded, or fails: each of these cases is an error.
C19_NoRefundAfterSpendFound ==
    \A s \in Swaps :
       /\ Loadable(s) =>
             \A r \in RecoverResults(s) :
                /\ "send_maker_refunds_payment" \in r.calls =>
                      /\ ~chain[s].maker_payment_spent
                      /\ ~chain[s].maker_payment_refunded
                      /\ "search_for_swap_tx_spend_my" \in r.calls
                /\ (/\ "search_for_swap_tx_spend_my" \in r.calls
                    /\ chain[s].maker_payment_spent \/ chain[s].maker_payment_refunded) =>
                      ~r.ok /\ r.err # ""
                /\ r.err = "Error when trying to find maker payment spend" =>
                      ~r.ok /\ "send_maker_refunds_payment" \notin r.calls
       /\ recover_result[s].err \in
             { "Maker payment was already spent", "Maker payment was already refunded",
               "Error when trying to find maker payment spend" } =>
             /\ ~recover_result[s].ok
             /\ "send_maker_refunds_payment" \notin recover_result[s].calls

\* recover_funds was called after the taker had spent the maker payment: the
\* search ran, the refund was not called.
C19_RefusedAlreadySpent ==
    \E s \in Swaps :
       /\ chain[s].maker_payment_spent
       /\ recover_result[s].err = "Maker payment was already spent"
       /\ "search_for_swap_tx_spend_my" \in recover_result[s].calls
       /\ "send_maker_refunds_payment" \notin recover_result[s].calls

\* C20 (as stated): a saved swap whose last event is Finished and which has
\* neither MakerPaymentRefunded nor TakerPaymentSpent is reported recoverable
\* by my_swap_status.
C20_FinishedUnsettledIsRecoverable ==
    (/\ status.code = 200
     /\ is_finished(status.events)
     /\ ~Has(status.events, "MakerPaymentRefunded")
     /\ ~Has(status.events, "TakerPaymentSpent")) => status.recoverable

\* The event types that make a finished swap not recoverable.
C20_Settled ==
    { "StartFailed", "NegotiateFailed", "TakerFeeValidateFailed",
      "TakerPaymentSpent", "MakerPaymentRefunded" }

\* C20 (amended): my_swap_status reports a saved swap recoverable exactly
\* when its last event is Finished and it has none of MakerPaymentRefunded,
\* TakerPaymentSpent, StartFailed, NegotiateFailed and TakerFeeValidateFailed;
\* and is_recoverable says the same of every file the driver leaves.
C20_RecoverableIffFinishedUnsettled ==
    /\ status.code = 200 =>
          (status.recoverable <=>
              /\ is_finished(status.events)
              /\ \A ty \in C20_Settled : ~Has(status.events, ty))
    /\ status.code # 200 => ~status.recoverable
    /\ \A s \in Swaps :
          is_recoverable(read_saved(s)) <=>
             /\ is_finished(read_saved(s))
             /\ \A ty \in C20_Settled : ~Has(read_saved(s), ty)

\* my_swap_status reported as recoverable a finished swap whose maker payment
\* was sent and neither refunded nor followed by the spend of the taker payment.
C20_ReportedRecoverable ==
    /\ status.code = 200
    /\ status.recoverable
    /\ Has(status.events, "MakerPaymentSent")
    /\ is_finished(status.events)

(***************************************************************************)
(* C21: when the negotiation-reply arrives and decodes, Negotiate emits    *)
(* Negotiated with WaitForTakerFee next if and only if the two started_at  *)
(* differ by at most 60 and the taker's payment_locktime is its started_at *)
(* plus lock_duration; otherwise it emits NegotiateFailed with Finish      *)
(* next.  A difference of 60 is accepted, one of 61 is rejected.           *)
(***************************************************************************)
C21_ReplyAcceptable(s, reply) ==
    /\ Abs(swap[s].data.started_at - reply.started_at) <= 60
    /\ reply.payment_locktime = reply.started_at + swap[s].data.lock_duration

C21_NegotiatedIffReplyAcceptable ==
    [][ \A s \in Swaps :
          (Handles(s, "Negotiate") /\ pc'[s] = "save" /\ taker_data'[s] # NoReply)
          => IF C21_ReplyAcceptable(s, taker_data'[s])
             THEN /\ pending'[s] = << EvNegotiated(taker_data'[s].payment_locktime) >>
                  /\ next'[s] = "WaitForTakerFee"
             ELSE /\ Len(pending'[s]) = 1
                  /\ pending'[s][1].type = "NegotiateFailed"
                  /\ next'[s] = "Finish" ]_vars

\* A reply whose started_at is 60 off was accepted.
C21_AcceptedAtSixty ==
    \E s \in Swaps :
        /\ pc[s] = "save"
        /\ taker_data[s] # NoReply
        /\ Abs(swap[s].data.started_at - taker_data[s].started_at) = 60
        /\ pending[s] = << EvNegotiated(taker_data[s].payment_locktime) >>
        /\ next[s] = "WaitForTakerFee"

\* A reply whose started_at is 61 off, its locktime as expected, was rejected.
C21_RejectedAtSixtyOne ==
    \E s \in Swaps :
        /\ pc[s] = "save"
        /\ Abs(swap[s].data.started_at - taker_data[s].started_at) = 61
        /\ taker_data[s].payment_locktime
               = taker_data[s].started_at + swap[s].data.lock_duration
        /\ Len(pending[s]) = 1
        /\ pending[s][1].type = "NegotiateFailed"
        /\ next[s] = "Finish"

(***************************************************************************)
(* C22: for every maker swap that has recorded Negotiated,                 *)
(* maker_payment_lock = taker_payment_lock + lock_duration, where          *)
(* taker_payment_lock is the locktime accepted from the taker.             *)
(***************************************************************************)
\* The swaps whose log holds Negotiated, in the file or in memory.
C22_Negotiated(s) == Has(disk[s], "Negotiated") /\ disk[s][1].type = "Started"

C22_TakerLock(s) ==
    disk[s][CHOOSE i \in DOMAIN disk[s] : disk[s][i].type = "Negotiated"].locktime

\* As stated: the two locks are exactly lock_duration apart.
C22_MakerLockIsTakerLockPlusDuration ==
    \A s \in Swaps :
        /\ C22_Negotiated(s)
            => disk[s][1].data.maker_payment_lock
                  = C22_TakerLock(s) + disk[s][1].data.lock_duration
        /\ swap[s].taker_payment_lock # 0
            => swap[s].data.maker_payment_lock
                  = swap[s].taker_payment_lock + swap[s].data.lock_duration

\* As the code has it: maker_payment_lock is the maker's started_at plus twice
\* lock_duration, taker_payment_lock the taker's started_at plus
\* lock_duration, so the two are lock_duration apart up to the accepted
\* difference of the two started_at, at most 60, and the maker's lock is the
\* later one.
C22_LocksApartUpToAcceptedSkew ==
    \A s \in Swaps :
        /\ C22_Negotiated(s)
            => /\ Abs(disk[s][1].data.maker_payment_lock
                        - (C22_TakerLock(s) + disk[s][1].data.lock_duration)) <= 60
               /\ disk[s][1].data.maker_payment_lock > C22_TakerLock(s)
        /\ swap[s].taker_payment_lock # 0
            => /\ Abs(swap[s].data.maker_payment_lock
                        - (swap[s].taker_payment_lock + swap[s].data.lock_duration)) <= 60
               /\ swap[s].data.maker_payment_lock > swap[s].taker_payment_lock

\* Negotiated was recorded for a taker whose started_at is 60 off.
C22_NegotiatedWithSkew ==
    \E s \in Swaps :
        /\ C22_Negotiated(s)
        /\ swap[s].taker_payment_lock = C22_TakerLock(s)
        /\ Abs(disk[s][1].data.maker_payment_lock
                 - (C22_TakerLock(s) + disk[s][1].data.lock_duration)) = 60

(***************************************************************************)
(* C24: for every saved maker swap with at least one event, the first      *)
(* event is Started.                                                       *)
(***************************************************************************)
C24_FirstEventIsStarted ==
    \A s \in Swaps : disk[s] # << >> => disk[s][1].type = "Started"

(***************************************************************************)
(* C25: in every maker swap log, across any number of crashes and          *)
(* kick-starts, each of TakerFeeValidated, MakerPaymentSent,               *)
(* TakerPaymentReceived, TakerPaymentValidatedAndConfirmed,                *)
(* TakerPaymentSpent and MakerPaymentRefunded occurs at most once, and the *)
(* transaction record such an event sets in memory is never overwritten:   *)
(* no such event is applied twice to the swap in memory.                   *)
(***************************************************************************)
C25_PinnedTypes ==
    { "TakerFeeValidated", "MakerPaymentSent", "TakerPaymentReceived",
      "TakerPaymentValidatedAndConfirmed", "TakerPaymentSpent", "MakerPaymentRefunded" }

C25_Count(events, type) ==
    Cardinality({ i \in DOMAIN events : events[i].type = type })

C25_AtMostOnce(events) ==
    \A i \in DOMAIN events :
        events[i].type \in C25_PinnedTypes
        => \A j \in (i + 1)..Len(events) : events[j].type # events[i].type

C26_FeeValidatedInLog(s) ==
    \E i, j \in DOMAIN disk[s] :
        /\ i < j
        /\ disk[s][i].type = "Negotiated"
        /\ disk[s][j].type = "TakerFeeValidated"

C27_FailuresAfterPayment ==
    { "MakerPaymentDataSendFailed", "TakerPaymentValidateFailed",
      "TakerPaymentSpendFailed" }

C27_RefundOutcomes == { "MakerPaymentRefunded", "MakerPaymentRefundFailed" }

C29_Rejected(s) ==
    \E i \in DOMAIN disk[s] :
        /\ disk[s][i].type = "NegotiateFailed"
        /\ disk[s][i].err \in { "Started_at time_dif over 60",
                                "taker_data.payment_locktime not equal to expected" }

C29_RejectionSendsZero ==
    \A s \in Swaps :
        /\ (C29_Rejected(s) /\ is_finished(disk[s])) => 0 \in negotiated_sent[s]
        /\ (Has(disk[s], "Negotiated") /\ "negotiated" \in sent[s])
              => negotiated_sent[s] = {1}

(***************************************************************************)
(* C30: the fallback grace passed to peers::recv for a receive with        *)
(* timeout t seconds is clamp(t/3, 30, 60): 30 when t/3 < 30, t/3 when     *)
(* 30 <= t/3 <= 60, and 60 when t/3 > 60.                                  *)
(***************************************************************************)
C30_Clamp(x, lo, hi) == IF x < lo THEN lo ELSE IF x > hi THEN hi ELSE x

C30_FallbackIsClamp ==
    \A s \in Swaps :
        recv_call[s] # NoRecv
        => recv_call[s].fallback = C30_Clamp(recv_call[s].timeout_sec \div 3, 30, 60)

(***************************************************************************)
(* C28: the record SWAPS/MY/<uuid>.json of a swap that is running or about *)
(* to run is created and changed by the driver of that swap only: every    *)
(* change of it is the driver's save of its next event; import_swaps, run  *)
(* before or between the saves, neither creates nor alters it.             *)
(***************************************************************************)
C28_RunningOrAboutToRun(s) == pc[s] \in {"new", "cmd", "save", "apply", "broadcast"}

C28_OnlyTheDriverWritesTheRecord ==
    [][ \A s \in Swaps :
          (C28_RunningOrAboutToRun(s) /\ disk'[s] # disk[s])
          => /\ pc[s] = "save"
             /\ disk'[s] = Append(disk[s], Head(pending[s])) ]_vars

(***************************************************************************)
(* C23: every run of the maker swap driver eventually records Finished and *)
(* stops, also when the taker stops responding or a coin RPC keeps failing *)
(* after the maker payment, the spend or the refund was broadcast, as long *)
(* as time advances and the driver is scheduled fairly.                    *)
(***************************************************************************)
C23_EveryRunFinishes ==
    \A s \in Swaps :
        (pc[s] = "cmd") ~> (pc[s] = "done" /\ is_finished(disk[s]))

\* What the loops leave of it: the run finishes if tx_details_by_hash answers
\* from some moment on.
C23_EveryRunFinishesIfDetailsAnswer ==
    (<>[](~details_failing)) => C23_EveryRunFinishes

\* A run is inside its loop on tx_details_by_hash, its payment broadcast.
C23_LoopingAfterBroadcast ==
    \E s \in Swaps :
        pc[s] = "details" /\ command[s] = "SendPayment" /\ chain[s].maker_payment = 1

\* C31: dex_fee_amount returns the larger of trade_amount * rate and 0.0001,
\* where rate is 9/7770 when either ticker is "KMD" and 1/777 otherwise: in
\* units of 10^-8 coin the result is the share trade_amount * rate (up to the
\* cut of the quotient) when the share is above 10000 and exactly 10000
\* otherwise; it is never below 10000; and for a pair without KMD and
\* trade_amount = 777 * 10000 it is exactly 10000.
C31_Share(call) ==
    IF call.base = "KMD" \/ call.rel = "KMD"
    THEN [ num |-> 9 * call.trade_amount, den |-> 7770 ]
    ELSE [ num |-> call.trade_amount, den |-> 777 ]

C31_ExactlyMinimum(fee) == fee.num = 10000 /\ fee.den = 1 /\ fee.cut = "exact"

C31_FeeIsShareOrMinimum ==
    fee_call # NoFeeCall =>
        LET share == C31_Share(fee_call)
            fee   == fee_call.fee
        IN  /\ share.num > 10000 * share.den =>
                fee.num = share.num /\ fee.den = share.den
            /\ share.num <= 10000 * share.den => C31_ExactlyMinimum(fee)
            /\ fee.num >= 10000 * fee.den
            /\ ~ (fee.num = 10000 * fee.den /\ fee.cut = "below")
            /\ (fee_call.trade_amount = 777 * 10000
                /\ fee_call.base # "KMD" /\ fee_call.rel # "KMD")
               => C31_ExactlyMinimum(fee)

\* dex_fee_amount was called at the point where the share meets the minimum
\* and returned the minimum.
C31_CalledAtTheMeetingPoint ==
    /\ fee_call.trade_amount = 7770000
    /\ fee_call.base = "BTC" /\ fee_call.rel = "ETH"
    /\ C31_ExactlyMinimum(fee_call.fee)

\* C32: for one swap the maker never broadcasts both a claim of the taker
\* payment and a refund of its own payment, at any moment of any execution.
C32_NeverClaimAndRefund ==
    \A s \in Swaps :
        ~(chain[s].taker_payment_spent /\ chain[s].maker_payment_refunded)

\* C33: the maker calls send_maker_spends_taker_payment, which reveals the
\* secret, only when TakerPaymentValidatedAndConfirmed is in the saved record
\* of the swap; no message it sends to the taker and no swapstatus broadcast
\* carries the secret: the negotiation message carries dhash160 of it.
C33_CarriesSecret(m, secret) ==
    \/ m.started_at = secret \/ m.payment_locktime = secret
    \/ m.secret_hash = secret \/ m.negotiated = secret

C33_SpendCall(s) == SpendTakerPayment(s) /\ swap[s].taker_payment # NoTx

C34_Timeout(s) == swap[s].data.started_at + swap[s].data.lock_duration \div 3

C34_TimedOutEvents == << EvErr("MakerPaymentTransactionFailed", "Timeout") >>

C34_NoPaymentAfterTimeout ==
    [][ \A s \in Swaps :
          MakerPayment(s) =>
             /\ now > C34_Timeout(s) =>
                   /\ chain'[s] = chain[s]
                   /\ pending'[s] = C34_TimedOutEvents
                   /\ next'[s] = "Finish"
             /\ now <= C34_Timeout(s) => pending'[s] # C34_TimedOutEvents ]_vars

\* SendPayment ran one second after the timeout and timed out with no
\* payment on the chain.
C34_TimedOutOneSecondLate ==
    \E s \in Swaps :
       /\ pc[s] = "save" /\ pending[s] = C34_TimedOutEvents
       /\ now = C34_Timeout(s) + 1
       /\ chain[s].maker_payment = 0

\* SendPayment ran at the timeout itself and sent the payment.
C34_PaidAtTheTimeout ==
    \E s \in Swaps :
       /\ pc[s] = "save" /\ pending[s] # << >>
       /\ pending[s][1].type = "MakerPaymentSent"
       /\ now = C34_Timeout(s)
       /\ chain[s].maker_payment = 1

\* C35: in WaitForTakerFee validate_fee is called at most 1 + 3 times and
\* tx_details_by_hash at most 1 + 3 times; when the first four answers of
\* either stay Err the handler emits TakerFeeValidateFailed and goes to
\* Finish, and otherwise each loop stops at its first Ok.
RECURSIVE C35_LeadingErrs(_)
C35_LeadingErrs(answers) ==
    IF answers = << >> \/ Head(answers) THEN 0 ELSE 1 + C35_LeadingErrs(Tail(answers))

C35_Calls(answers) == Min(C35_LeadingErrs(answers) + 1, 1 + 3)

C35_AtMostFourCallsEach ==
    fee_checks # NoFeeChecks =>
        LET v == C35_LeadingErrs(fee_checks.validate_answers)
            d == C35_LeadingErrs(fee_checks.details_answers)
        IN  /\ fee_checks.validate_fee_calls <= 1 + 3
            /\ fee_checks.tx_details_calls <= 1 + 3
            /\ fee_checks.validate_fee_calls = C35_Calls(fee_checks.validate_answers)
            /\ fee_checks.tx_details_calls =
                  IF v >= 1 + 3 THEN 0 ELSE C35_Calls(fee_checks.details_answers)
            /\ (v >= 1 + 3 \/ d >= 1 + 3) <=>
                  (fee_checks.event = "TakerFeeValidateFailed" /\ fee_checks.next = "Finish")
            /\ (v < 1 + 3 /\ d < 1 + 3) <=>
                  (fee_checks.event = "TakerFeeValidated" /\ fee_checks.next = "SendPayment")

\* validate_fee answered Ok at its fourth call and tx_details_by_hash failed
\* four times: the handler gave up after 1 + 3 calls of each.
C35_GaveUpAfterFourDetailsCalls ==
    /\ fee_checks.validate_fee_calls = 4
    /\ fee_checks.tx_details_calls = 4
    /\ fee_checks.event = "TakerFeeValidateFailed"
    /\ fee_checks.next = "Finish"

\* C36: at every moment the maker amounts of the swaps on one maker coin
\* that have recorded Started and neither MakerPaymentSent nor Finished add
\* up to no more than the balance of the wallet.
C36_Committed(s) ==
    /\ Has(disk[s], "Started")
    /\ ~Has(disk[s], "MakerPaymentSent")
    /\ ~Has(disk[s], "Finished")

RECURSIVE C36_SumCommitted(_, _)
C36_SumCommitted(S, coin) ==
    IF S = {} THEN 0
    ELSE LET s == CHOOSE x \in S : TRUE
         IN  (IF C36_Committed(s) /\ disk[s][1].data.maker_coin = coin
              THEN disk[s][1].data.maker_amount ELSE 0)
             + C36_SumCommitted(S \ {s}, coin)

C36_CommittedWithinBalance ==
    \A coin \in Coins : C36_SumCommitted(Swaps, coin) <= InitialBalance

\* C37: Finished is the last event of every log and occurs at most once;
\* once Finished is in the log no step appends to the log or puts the swap
\* back into the driver, be it the driver itself, kick-start or
\* recover_funds; and Start is executed only for a swap with an empty log.
C37_FinishedIsLast(events) ==
    \A i \in 1..Len(events) : events[i].type = "Finished" => i = Len(events)

C37_FinishedEndsTheLog ==
    [][ \A s \in Swaps :
          /\ C37_FinishedIsLast(disk'[s])
          /\ Has(disk[s], "Finished") =>
                /\ disk'[s] = disk[s]
                /\ pc'[s] \notin {"kick", "cmd", "save", "details"}
          /\ Start(s) => disk[s] = << >> ]_vars

\* A finished swap outlived a restart without being kick-started, and
\* recover_funds then refunded its maker payment.
C37_FinishedLeftAloneAndRecovered ==
    \E s \in Swaps :
       /\ is_finished(disk[s])
       /\ phase = "up" /\ pc[s] = "stopped"
       /\ recover_result[s].ok

\* C38: whenever the driver is about to execute WaitForTakerPayment or
\* RefundMakerPayment the swap holds its maker payment, and whenever it is
\* about to execute ValidateTakerPayment or SpendTakerPayment it holds the
\* taker payment, in fresh runs and in runs resumed by kick-start from
\* whatever the driver left on disk: no unwrap of the four handlers panics.
C38_PaymentPresentWhereUnwrapped ==
    \A s \in Swaps :
       /\ (Handles(s, "WaitForTakerPayment") \/ Handles(s, "RefundMakerPayment"))
             => swap[s].maker_payment # NoTx
       /\ (Handles(s, "ValidateTakerPayment") \/ Handles(s, "SpendTakerPayment"))
             => swap[s].taker_payment # NoTx

\* A swap killed between the saves of TakerPaymentReceived and
\* TakerPaymentWaitConfirmStarted was kick-started and is about to validate
\* the taker payment it has loaded.
C38_ResumedBetweenTheTwoEvents ==
    \E s \in Swaps :
       /\ Handles(s, "ValidateTakerPayment")
       /\ Last(disk[s]).type = "TakerPaymentReceived"
       /\ swap[s].taker_payment # NoTx
       /\ swap[s].maker_payment # NoTx

\* A swap whose last event was a failure after the maker payment was
\* kick-started and is about to refund the payment it has loaded.
C38_ResumedAtRefund ==
    \E s \in Swaps :
       /\ Handles(s, "RefundMakerPayment")
       /\ applied[s] = disk[s] /\ pending[s] = << >>
       /\ crashes > 0 /\ save_failed = {}
       /\ swap[s].maker_payment # NoTx

\* C39: a recover_funds call leaves the saved event log as it was, also when
\* it refunds; and a call made after a call that refunded, or once the chain
\* shows the maker payment refunded, returns an error and sends no refund.
C39_RecoverKeepsLogAndRefundsOnce ==
    [][ \A s \in Swaps :
          RecoverFunds(s) =>
             /\ disk'[s] = disk[s]
             /\ (recover_result[s].ok \/ chain[s].maker_payment_refunded) =>
                   /\ ~recover_result'[s].ok
                   /\ recover_result'[s].err # ""
                   /\ "send_maker_refunds_payment" \notin recover_result'[s].calls
                   /\ refund_calls' = refund_calls
                   /\ chain' = chain ]_vars

\* recover_funds refunded the maker payment, and the call after it was
\* refused because the search found the refund.
C39_SecondCallRefused ==
    \E s \in Swaps :
       /\ recover_result[s].err = "Maker payment was already refunded"
       /\ ~Has(disk[s], "MakerPaymentRefunded")
       /\ chain[s].maker_payment_refunded
       /\ \E c \in refund_calls : c.uuid = s /\ c.by = "recover"
       /\ \A c \in refund_calls : c.by = "recover"

\* C40: get_locked_amount(coin) returns the sum of locked_amount().amount
\* over exactly the registered swaps that are live and lock that coin, and
\* after the call the registry holds exactly the entries that were live
\* before it, in their order.
C40_Live(s) == pc[s] \notin {"absent", "new", "kick", "stopped", "done"}

C40_Registered(s) == \E i \in 1..Len(running_swaps) : running_swaps[i] = s

RECURSIVE C40_SumLocked(_, _)
C40_SumLocked(S, coin) ==
    IF S = {} THEN 0
    ELSE LET s == CHOOSE x \in S : TRUE
         IN  (IF C40_Registered(s) /\ C40_Live(s) /\ MakerCoinOf(s) = coin
              THEN IF swap[s].maker_payment = NoTx THEN swap[s].maker_amount ELSE 0
              ELSE 0)
             + C40_SumLocked(S \ {s}, coin)

C40_SumOverLiveAndOnlyLiveKept ==
    [][ /\ \A coin \in Coins : get_locked_amount(coin) = C40_SumLocked(Swaps, coin)
        /\ GetLockedAmount =>
              /\ \A s \in Swaps :
                    (\E i \in 1..Len(running_swaps') : running_swaps'[i] = s)
                       <=> (C40_Registered(s) /\ C40_Live(s))
              /\ running_swaps' = SelectSeq(running_swaps, C40_Live)
              /\ \A coin \in Coins :
                    get_locked_amount(coin)' = get_locked_amount(coin) ]_vars

\* Two swaps ran side by side; one ended, the other still locks its amount,
\* and the registry has been pruned down to the live one.
C40_PrunedToTheLiveSwap ==
    \E s \in Swaps, d \in Swaps :
       /\ pc[d] = "done" /\ applied[d] = disk[d]
       /\ C40_Live(s) /\ swap[s].maker_payment = NoTx /\ swap[s].maker_amount > 0
       /\ running_swaps = << s >>
       /\ get_locked_amount(MakerCoinOf(s)) = swap[s].maker_amount

\* The only swap of the process ended and get_locked_amount dropped its
\* entry: no other call prunes the registry after the swap's own start.
C40_DeadEntryDropped ==
    /\ pc["b"] = "absent"
    /\ pc["a"] = "done" /\ applied["a"] = disk["a"] /\ disk["a"] # << >>
    /\ running_swaps = << >>

====
